---- MODULE Spec2Model ----
(***************************************************************************)
(* Model of src/espoyunkonsolu/espoyunkonsolu.ino: the lane-dodge shooter  *)
(* game2() with its calibration, entity pools, per-frame steps, collision  *)
(* tests and incremental drawing.                                          *)
(*                                                                         *)
(* Numbers.  The code computes positions, speeds and the control signal    *)
(* in float.  The model keeps them as integers scaled by FP (thousandths); *)
(* (int) casts truncate toward zero as in C.  A float division 0.0f/0.0f   *)
(* yields NaN, which is kept as the distinct value NaN: every comparison   *)
(* with it is false and every sum or product with it is NaN.               *)
(***************************************************************************)
EXTENDS Integers, Sequences, FiniteSets, TLC

\* ---------------------------------------------------------------- bounds
\* Frames executed in one run of the model, over all sessions.
MaxFrames == 44
\* Passes of the calibration sweep loop that are followed.
SweepSamples == 3
\* Passes of the game1 loop in one run of the model.
MaxLoops == 12
\* Frames followed from the state late in a game2 session.
LateFrames == 26
\* Frames followed from the state in which a new wave is about to enter under
\* the player's bullets.
PairFrames == 4
\* Passes of loop() in one run of the model.
MaxMenuLoops == 6

\* ------------------------------------------------------- program constants
FP == 1000
NaN == 99999999

FRAME_MS == 20
CAR_W == 28
CAR_H == 20
ROAD_MARGIN == 6
LANE_COUNT == 7
MAX_ENEMIES == 4
MAX_PLAYER_BULLETS == 6
MAX_ENEMY_BULLETS == 10
PLAYER_MAX_SPEED == 5 * FP
PLAYER_ACCEL == (6 * FP) \div 10
BASE_ENEMY_SPEED == (12 * FP) \div 10
ENEMY_FIRE_INTERVAL_MIN == 900
ENEMY_FIRE_INTERVAL_MAX == 2200
PLAYER_FIRE_COOLDOWN == 220
SPAWN_MIN_GAP_PIXELS == CAR_H + 24
DEADZONE_RATIO == (15 * FP) \div 100
PLAYER_BULLET_VY == 0 - ((65 * FP) \div 10)
SCORE_TICK_MS == 200
HIT_REWARD == 10
EXPLOSION_MS == 40
CALIB_MS == 2000 + 3000 + 1000
GAMEOVER_MS == 5000
ADC_MAX == 4095
SENTINEL == 0 - 100

DARKGREY == 31727
ST77XX_BLACK == 0
ST77XX_ROAD == ST77XX_BLACK
ST77XX_ORANGE == 64800
ST77XX_GREEN == 2016
ST77XX_RED == 63488
ST77XX_YELLOW == 65504
ST77XX_CYAN == 2047

MAP_SIZE == 8
CELL_SIZE == 15
JOY_THRESHOLD_LOW == 1000
JOY_THRESHOLD_HIGH == 3000
TANK_MOVE_DELAY == 150
BULLET_MOVE_DELAY == 50
FIRE_DEBOUNCE == 200
NUM_GAMES == 3
CFG_DEVICE_STATUS == 1
DEBOUNCE_DELAY == 220
\* DEBOUNCE_DELAY as redefined before readJoystickMenu
DEBOUNCE_DELAY_JOY == 200
BTN3_DEBOUNCE == 250
\* the levels digitalRead returns
HIGH == TRUE
LOW == FALSE
ST77XX_WHITE == 65535

scrW == 128
scrH == 160
roadX == ROAD_MARGIN
roadW == scrW - 2 * ROAD_MARGIN
playerY == scrH - CAR_H - 8

EnemySlots == 0 .. (MAX_ENEMIES - 1)
PlayerBulletSlots == 0 .. (MAX_PLAYER_BULLETS - 1)
EnemyBulletSlots == 0 .. (MAX_ENEMY_BULLETS - 1)
Lanes == 0 .. (LANE_COUNT - 1)

\* ------------------------------------------------------------ arithmetic
Max(a, b) == IF a >= b THEN a ELSE b
Min(a, b) == IF a <= b THEN a ELSE b

\* C integer division and the (int) cast of a float: truncation toward zero.
TruncDiv(a, b) == IF a >= 0 THEN a \div b ELSE 0 - ((0 - a) \div b)
ToInt(v) == TruncDiv(v, FP)

\* Float comparisons: false as soon as one side is NaN.
FLt(a, b) == a # NaN /\ b # NaN /\ a < b
FGt(a, b) == a # NaN /\ b # NaN /\ a > b

\* Float quotient of two ints, scaled by FP; 0/0 is NaN.  A nonzero
\* numerator over zero is +-infinity, which constrain() brings to +-1: it is
\* kept as a value beyond +-FP.
FDiv(num, den) ==
  IF den = 0
  THEN (IF num = 0 THEN NaN ELSE IF num > 0 THEN 2 * FP ELSE 0 - 2 * FP)
  ELSE TruncDiv(num * FP, den)

\* constrain(amt, low, high) of Arduino.h: a NaN fails both tests and passes.
Constrain(amt, low, high) ==
  IF FLt(amt, low) THEN low ELSE IF FGt(amt, high) THEN high ELSE amt

FAbs(v) == IF v = NaN THEN NaN ELSE IF v > 0 THEN v ELSE 0 - v

\* ------------------------------------------------------- display operations
\* One entry of the log of display calls: a tft.fillRect, labelled with the
\* call site that issued it (by) and what it paints (what).
Fill(by, what, x, y, w, h, color) ==
  [by |-> by, what |-> what, x |-> x, y |-> y, w |-> w, h |-> h, color |-> color]

\* The part of a rectangle the panel shows is empty or not.
Visible(x, y, w, h) ==
  w > 0 /\ h > 0 /\ x < scrW /\ y < scrH /\ x + w > 0 /\ y + h > 0

\* drawBackground: the fill of pixel column c (the centre dashes apart).
Background(c) ==
  IF c < ROAD_MARGIN \/ c >= scrW - ROAD_MARGIN THEN DARKGREY ELSE ST77XX_ROAD

DrawBackground ==
  << Fill(<<"background", 0>>, "shoulder", 0, 0, ROAD_MARGIN, scrH, DARKGREY),
     Fill(<<"background", 0>>, "shoulder", scrW - ROAD_MARGIN, 0, ROAD_MARGIN, scrH, DARKGREY),
     Fill(<<"background", 0>>, "road", roadX, 0, roadW, scrH, ST77XX_ROAD) >>

\* The colour eraseRect picks for a clipped rectangle rx, rw.
EraseColor(rx, rw) ==
  IF rx + rw < roadX \/ rx > roadX + roadW THEN ST77XX_BLACK ELSE ST77XX_ROAD

\* eraseRect: the fillRect it issues, or nothing when the clipped rectangle
\* is empty.
EraseRect(by, x, y, w, h) ==
  IF w <= 0 \/ h <= 0 THEN << >>
  ELSE LET rx0 == x
           ry0 == y
           rw1 == IF rx0 < 0 THEN w + rx0 ELSE w
           rx1 == IF rx0 < 0 THEN 0 ELSE rx0
           rh1 == IF ry0 < 0 THEN h + ry0 ELSE h
           ry1 == IF ry0 < 0 THEN 0 ELSE ry0
       IN IF rx1 >= scrW \/ ry1 >= scrH THEN << >>
          ELSE LET rw2 == IF rx1 + rw1 > scrW THEN scrW - rx1 ELSE rw1
                   rh2 == IF ry1 + rh1 > scrH THEN scrH - ry1 ELSE rh1
               IN IF rw2 <= 0 \/ rh2 <= 0 THEN << >>
                  ELSE << Fill(by, "erase", rx1, ry1, rw2, rh2, EraseColor(rx1, rw2)) >>

\* drawTank paints the body and, above it, the barrel: logged as one entry,
\* the box around both.
DrawTank(x, y) ==
  << Fill(<<"player", 0>>, "sprite", x, y - 6, CAR_W, CAR_H + 6, ST77XX_GREEN) >>
DrawEnemyRect(e, x, y) ==
  << Fill(<<"enemy", e>>, "sprite", x, y, CAR_W, CAR_H, ST77XX_RED) >>
DrawBullet(by, x, y, color) == << Fill(by, "sprite", x - 2, y - 4, 4, 8, color) >>

\* The erase that follows an enemy (CAR_W x CAR_H+4) and a bullet (6 x 12).
EraseEnemy(e, x, y) == EraseRect(<<"enemy", e>>, x, y, CAR_W, CAR_H + 4)
EraseBullet(by, x, y) == EraseRect(by, x - 3, y - 6, 6, 12)

\* ------------------------------------------------------------- collisions
\* The overlap test of the collision step, bullet centre (bx, by) against a
\* car at (cx, cy).
CollidesMutant(bx, by, cx, cy) ==
  ~(bx + 2 < cx \/ bx - 2 > cx + CAR_W + 16 \/ by + 4 < cy \/ by - 4 > cy + CAR_H)
Collides(bx, by, cx, cy) ==
  ~(bx + 2 < cx \/ bx - 2 > cx + CAR_W \/ by + 4 < cy \/ by - 4 > cy + CAR_H)

\* ------------------------------------------------------------------ pools
FirstFree(pool, slots) ==
  IF \E i \in slots : ~pool[i].active
  THEN CHOOSE i \in slots : ~pool[i].active /\ \A j \in slots : j < i => pool[j].active
  ELSE 0 - 1

NoBullet == [x |-> 0, y |-> 0, vy |-> 0, active |-> FALSE]
NoEnemy == [x |-> 0, y |-> 0, speed |-> 0, active |-> FALSE, nextFireAt |-> 0, lane |-> 0]

\* ------------------------------------------------------------------ state
VARIABLES
  pc,               \* position of the program in game2
  clock,            \* millis()
  frames,           \* frames executed so far (bounds the run)
  stick, btn3,      \* what the player holds during the session: axis, fire button
  work,             \* time the non-blocking part of one frame takes, in ms
  calib,            \* JoystickCalib
  playerX, playerVel, lastPlayerFire, lastN,
  playerBullets, enemyBullets, enemies,
  prevPlayerX, prevPlayerY,
  prevEnemyX, prevEnemyY,
  prevPlayerBulletX, prevPlayerBulletY,
  prevEnemyBulletX, prevEnemyBulletY,
  isGameOver, lastFrame, startTime, lastScoreTick, score,
  now, difficulty, n,  \* locals of the running frame: n after the deadzone
  gapLane,          \* gapLane of the last spawnEnemiesWave call
  ops,              \* display calls issued so far in the running frame
  enemyShown, playerBulletShown, enemyBulletShown
                    \* where each slot's sprite stands on the panel, or NoPos

VARIABLES
  minVal, maxVal,   \* locals of the calibration sweep
  sweepLeft         \* sweep samples still to come (bounds the sweep)

VARIABLES           \* game1 and its globals
  gameMap,
  tankX, tankY, tankDir, prevTankX, prevTankY,
  bulletActive, bulletX, bulletY, bulletDir,
  prevBulletActive, prevBulletX, prevBulletY,
  lastTankMove, lastBulletMove, lastFireTime,
  loops             \* passes of the game1 loop so far (bounds the run)

game1Vars ==
  << gameMap, tankX, tankY, tankDir, prevTankX, prevTankY,
     bulletActive, bulletX, bulletY, bulletDir,
     prevBulletActive, prevBulletX, prevBulletY,
     lastTankMove, lastBulletMove, lastFireTime, loops >>

VARIABLES           \* the menu and its globals
  topMode, inSubMenu, mainIdx, lastMainIdx, cfgState, lastCfgState, selectedGame,
  lastOkState, lastBackState, lastBtn3State, lastBtn3Time,
  lastMoveTime, lastJoystickMoveTime,
  screen,           \* what the panel shows as a whole
  pressEvents,      \* BTN_3 press events accepted since BTN_3 was last read HIGH
  menuLoops         \* passes of loop() so far (bounds the run)

menuVars ==
  << topMode, inSubMenu, mainIdx, lastMainIdx, cfgState, lastCfgState, selectedGame,
     lastOkState, lastBackState, lastBtn3State, lastBtn3Time,
     lastMoveTime, lastJoystickMoveTime, screen, pressEvents, menuLoops >>

\* The variables the steps of the game2 frame loop leave alone.
others == << minVal, maxVal, sweepLeft, game1Vars, menuVars >>

vars ==
  << others, pc, clock, frames, stick, btn3, work, calib,
     playerX, playerVel, lastPlayerFire, lastN,
     playerBullets, enemyBullets, enemies,
     prevPlayerX, prevPlayerY, prevEnemyX, prevEnemyY,
     prevPlayerBulletX, prevPlayerBulletY, prevEnemyBulletX, prevEnemyBulletY,
     isGameOver, lastFrame, startTime, lastScoreTick, score, now, difficulty, n,
     gapLane, ops, enemyShown, playerBulletShown, enemyBulletShown >>

\* The variables of a game2 session other than pc, clock, calib, now and ops.
game2Vars ==
  << frames, stick, btn3, work,
     playerX, playerVel, lastPlayerFire, lastN,
     playerBullets, enemyBullets, enemies,
     prevPlayerX, prevPlayerY, prevEnemyX, prevEnemyY,
     prevPlayerBulletX, prevPlayerBulletY, prevEnemyBulletX, prevEnemyBulletY,
     isGameOver, lastFrame, startTime, lastScoreTick, score, difficulty, n,
     gapLane, enemyShown, playerBulletShown, enemyBulletShown >>

\* The variables the calibration leaves alone.
notCalib == << game2Vars, game1Vars, menuVars, now, ops >>

\* The variables game1 leaves alone.
notGame1 == << game2Vars, menuVars, calib, minVal, maxVal, sweepLeft >>

\* The variables the menu leaves alone.
notMenu == << game2Vars, game1Vars, calib, minVal, maxVal, sweepLeft, now, ops >>

NoPos == << >>

\* gameMap as the sketch declares it, row by row.
MazeRows ==
  << << 1, 1, 1, 1, 1, 1, 1, 1 >>,
     << 1, 0, 0, 1, 0, 0, 0, 1 >>,
     << 1, 0, 1, 1, 0, 1, 0, 1 >>,
     << 1, 0, 0, 0, 0, 1, 0, 1 >>,
     << 1, 1, 0, 1, 0, 0, 0, 1 >>,
     << 1, 0, 0, 0, 1, 1, 0, 1 >>,
     << 1, 0, 1, 0, 0, 0, 0, 1 >>,
     << 1, 1, 1, 1, 1, 1, 1, 1 >> >>

Cells == 0 .. (MAP_SIZE - 1)

OthersInit ==
  /\ minVal = 0
  /\ maxVal = 0
  /\ sweepLeft = 0
  /\ gameMap = [y \in Cells |-> [x \in Cells |-> MazeRows[y + 1][x + 1]]]
  /\ tankX = 1
  /\ tankY = 1
  /\ tankDir = 0
  /\ prevTankX = 1
  /\ prevTankY = 1
  /\ bulletActive = FALSE
  /\ bulletX = 0
  /\ bulletY = 0
  /\ bulletDir = 0
  /\ prevBulletActive = FALSE
  /\ prevBulletX = 0
  /\ prevBulletY = 0
  /\ lastTankMove = 0
  /\ lastBulletMove = 0
  /\ lastFireTime = 0
  /\ loops = 0
  /\ topMode = "MODE_MAIN"
  /\ inSubMenu = FALSE
  /\ mainIdx = 0
  /\ lastMainIdx = 0
  /\ cfgState = CFG_DEVICE_STATUS
  /\ lastCfgState = CFG_DEVICE_STATUS
  /\ selectedGame = 0
  /\ lastOkState = HIGH
  /\ lastBackState = HIGH
  /\ lastBtn3State = HIGH
  /\ lastBtn3Time = 0
  /\ lastMoveTime = 0
  /\ lastJoystickMoveTime = 0
  /\ screen = "main"
  /\ pressEvents = 0
  /\ menuLoops = 0

\* What a draw and an erase make of a slot's sprite on the panel.  shown is
\* <<x, y>> while the sprite drawn for position (x, y) is on the panel,
\* <<x, y, 0>> once that sprite has been erased, and NoPos before the slot
\* has drawn anything.  A draw that reaches the panel replaces it; an erase
\* issued for position (px, py) that reaches the panel removes the sprite
\* drawn for that position.
ShownAfterDraw(shown, px, py, x, y, w, h) ==
  IF Visible(x, y, w, h) THEN <<px, py>> ELSE shown
ShownAfterErase(shown, px, py, erase) ==
  IF erase # << >> /\ shown = <<px, py>> THEN <<px, py, 0>> ELSE shown
OnPanel(shown) == Len(shown) = 2

\* --------------------------------------------------------- spawnEnemiesWave
LaneSeq == [i \in 1 .. LANE_COUNT |-> i - 1]

\* avail[]: the lanes other than gapLane, in ascending order.
AvailLanesMutant(gap) == SelectSeq(LaneSeq, LAMBDA l : l # (gap + 1) % LANE_COUNT)
AvailLanes(gap) == SelectSeq(LaneSeq, LAMBDA l : l # gap)

Swap(seq, a, b) == [seq EXCEPT ![a] = seq[b], ![b] = seq[a]]

\* The Fisher-Yates pass over avail: for i = ac-1 .. 1, j = random(0, i+1)
\* is js[i]; indices are those of the code (0-based).
RECURSIVE Shuffle(_, _, _)
Shuffle(seq, i, js) ==
  IF i < 1 THEN seq ELSE Shuffle(Swap(seq, i + 1, js[i] + 1), i - 1, js)

\* enemies[idx].x for a lane, as a float scaled by FP:
\* roadX + lane*laneW + (laneW - CAR_W)/2 with laneW = roadW / LANE_COUNT.
EnemyX(lane) ==
  (FP * (2 * LANE_COUNT * roadX + 2 * lane * roadW + roadW - CAR_W * LANE_COUNT))
    \div (2 * LANE_COUNT)

SpawnYMutant(spawned) == (0 - 8) * FP
SpawnY(spawned) == (0 - (spawned * (CAR_H + 8) + 8)) * FP

SpawnSlot(en) == FirstFree(en, EnemySlots)

\* The loop of spawnEnemiesWave over avail (i is 1-based here); draw holds
\* what random() returns: jit[k] and fd[k] for the k-th enemy spawned.
RECURSIVE SpawnLoop(_, _, _, _, _, _, _)
SpawnLoop(en, avail, i, spawned, diff, clk, draw) ==
  IF i > Len(avail) \/ spawned >= MAX_ENEMIES THEN en
  ELSE LET idx == SpawnSlot(en)
       IN IF idx < 0 THEN en
          ELSE SpawnLoop(
                 [en EXCEPT ![idx] =
                    [x |-> EnemyX(avail[i]),
                     y |-> SpawnY(spawned),
                     speed |-> BASE_ENEMY_SPEED + TruncDiv(draw.jit[spawned] * FP, 50)
                                 + TruncDiv(diff * 12, 100),
                     active |-> TRUE,
                     lane |-> avail[i],
                     nextFireAt |-> clk + draw.fd[spawned]]],
                 avail, i + 1, spawned + 1, diff, clk, draw)

SpawnEnemiesWave(en, diff, clk, draw) ==
  SpawnLoop(en, Shuffle(AvailLanes(draw.gap), Len(AvailLanes(draw.gap)) - 1, draw.js),
            1, 0, diff, clk, draw)

\* ------------------------------------------------------------------ inputs
\* What the collaborators hand to the program in the runs that are checked.
\* analogRead at the centre-rest sample, and the <<min, max>> the sweep saw.
\* analogRead(JOY_AXIS) during the calibration, sample by sample: the stick
\* pulled to either side, and at rest with the converter's noise.
AxisDraws == {200, 1990, 2000, 2010, 3800}
CenterDraws == {2000}
SweepDraws == { <<200, 3800>>, <<2000, 2000>> }
\* The axis position and the fire button the player holds through a session.
StickDraws == {200, 2000, 3800}
\* Milliseconds one pass of the frame loop takes apart from its delays.
WorkDraws == {0, 100}
\* random() in one spawnEnemiesWave call: gapLane, the shuffle's j for
\* i = 1..5, and for the k-th enemy its speed jitter and fire delay.
WaveDraws ==
  { [gap |-> 0, js |-> [i \in 1 .. 5 |-> 0],
     jit |-> [k \in EnemySlots |-> 49], fd |-> [k \in EnemySlots |-> 900]],
    [gap |-> 6, js |-> [i \in 1 .. 5 |-> i],
     jit |-> [k \in EnemySlots |-> 0], fd |-> [k \in EnemySlots |-> 2199]] }
\* Milliseconds into the game-over window at which a button is met low: the
\* loop polls every 40 ms while less than 5000 ms have passed.
PressDraws == {0, 4960}
\* random(ENEMY_FIRE_INTERVAL_MIN, ENEMY_FIRE_INTERVAL_MAX) when an enemy fires.
FireDelayDraws == {ENEMY_FIRE_INTERVAL_MIN, ENEMY_FIRE_INTERVAL_MAX - 1}

\* ---------------------------------------------------------------- game2
Boot ==
  /\ OthersInit
  /\ clock = 0
  /\ frames = 0
  /\ stick = 2000
  /\ btn3 = FALSE
  /\ work = 0
  /\ calib = [minVal |-> 0, maxVal |-> 0, center |-> 0]
  /\ playerX = 0
  /\ playerVel = 0
  /\ lastPlayerFire = 0
  /\ lastN = 0
  /\ playerBullets = [b \in PlayerBulletSlots |-> NoBullet]
  /\ enemyBullets = [b \in EnemyBulletSlots |-> NoBullet]
  /\ enemies = [e \in EnemySlots |-> NoEnemy]
  /\ prevPlayerX = 0
  /\ prevPlayerY = 0
  /\ prevEnemyX = [e \in EnemySlots |-> SENTINEL]
  /\ prevEnemyY = [e \in EnemySlots |-> SENTINEL]
  /\ prevPlayerBulletX = [b \in PlayerBulletSlots |-> SENTINEL]
  /\ prevPlayerBulletY = [b \in PlayerBulletSlots |-> SENTINEL]
  /\ prevEnemyBulletX = [b \in EnemyBulletSlots |-> SENTINEL]
  /\ prevEnemyBulletY = [b \in EnemyBulletSlots |-> SENTINEL]
  /\ isGameOver = FALSE
  /\ lastFrame = 0
  /\ startTime = 0
  /\ lastScoreTick = 0
  /\ score = 0
  /\ now = 0
  /\ difficulty = FP
  /\ n = 0
  /\ gapLane = 0
  /\ ops = << >>
  /\ enemyShown = [e \in EnemySlots |-> NoPos]
  /\ playerBulletShown = [b \in PlayerBulletSlots |-> NoPos]
  /\ enemyBulletShown = [b \in EnemyBulletSlots |-> NoPos]

Init == pc = "calib" /\ Boot

\* The calibration: the centre-rest sample, then the sweep's min and max.
Calibrate ==
  /\ pc = "calib"
  /\ \E c \in CenterDraws, sw \in SweepDraws :
       calib' = [center |-> c, minVal |-> sw[1], maxVal |-> sw[2]]
  /\ stick' \in StickDraws
  /\ btn3' \in BOOLEAN
  /\ work' \in WorkDraws
  /\ clock' = clock + CALIB_MS
  /\ ops' = << >>
  /\ pc' = "init"
  /\ UNCHANGED others
  /\ UNCHANGED << n, frames, playerX, playerVel, lastPlayerFire, lastN,
                  playerBullets, enemyBullets, enemies,
                  prevPlayerX, prevPlayerY, prevEnemyX, prevEnemyY,
                  prevPlayerBulletX, prevPlayerBulletY,
                  prevEnemyBulletX, prevEnemyBulletY,
                  isGameOver, lastFrame, startTime, lastScoreTick, score,
                  now, difficulty, gapLane,
                  enemyShown, playerBulletShown, enemyBulletShown >>

\* The calibration sample by sample (lines 547-569).  The centre-rest sample:
CenterSample ==
  /\ pc = "calib"
  /\ \E val \in AxisDraws : calib' = [calib EXCEPT !.center = val]
  /\ minVal' = 4095
  /\ maxVal' = 0
  /\ sweepLeft' = SweepSamples
  /\ clock' = clock + 2000
  /\ pc' = "sweep"
  /\ UNCHANGED notCalib

\* One pass of the sweep loop.
SweepSample ==
  /\ pc = "sweep"
  /\ sweepLeft > 0
  /\ \E val \in AxisDraws :
       /\ minVal' = IF val < minVal THEN val ELSE minVal
       /\ maxVal' = IF val > maxVal THEN val ELSE maxVal
  /\ sweepLeft' = sweepLeft - 1
  /\ UNCHANGED << pc, clock, calib, notCalib >>

\* The sweep has run its 3000 ms: its extremes become the calibration.
SweepDone ==
  /\ pc = "sweep"
  /\ sweepLeft = 0
  /\ calib' = [calib EXCEPT !.minVal = minVal, !.maxVal = maxVal]
  /\ clock' = clock + 3000 + 1000
  /\ pc' = "init"
  /\ UNCHANGED << minVal, maxVal, sweepLeft, notCalib >>

NextCalib == CenterSample \/ SweepSample \/ SweepDone

SpecCalib == Init /\ [][NextCalib]_vars

\* The session's locals, the background and the first wave.
SessionInit ==
  /\ pc = "init"
  /\ playerX' = roadX * FP + ((roadW - CAR_W) * FP) \div 2
  /\ playerVel' = 0
  /\ lastPlayerFire' = 0
  /\ playerBullets' = [b \in PlayerBulletSlots |-> NoBullet]
  /\ enemyBullets' = [b \in EnemyBulletSlots |-> NoBullet]
  /\ \E draw \in WaveDraws :
       /\ enemies' = SpawnEnemiesWave([e \in EnemySlots |-> NoEnemy], FP, clock, draw)
       /\ gapLane' = draw.gap
  /\ ops' = DrawBackground
  /\ prevPlayerX' = ToInt(playerX')
  /\ prevPlayerY' = playerY
  /\ prevEnemyX' = [e \in EnemySlots |-> SENTINEL]
  /\ prevEnemyY' = [e \in EnemySlots |-> SENTINEL]
  /\ prevPlayerBulletX' = [b \in PlayerBulletSlots |-> SENTINEL]
  /\ prevPlayerBulletY' = [b \in PlayerBulletSlots |-> SENTINEL]
  /\ prevEnemyBulletX' = [b \in EnemyBulletSlots |-> SENTINEL]
  /\ prevEnemyBulletY' = [b \in EnemyBulletSlots |-> SENTINEL]
  /\ enemyShown' = [e \in EnemySlots |-> NoPos]
  /\ playerBulletShown' = [b \in PlayerBulletSlots |-> NoPos]
  /\ enemyBulletShown' = [b \in EnemyBulletSlots |-> NoPos]
  /\ isGameOver' = FALSE
  /\ lastN' = 0
  /\ lastFrame' = clock
  /\ startTime' = clock
  /\ lastScoreTick' = clock
  /\ score' = 0
  /\ now' = clock
  /\ difficulty' = FP
  /\ pc' = "frame"
  /\ UNCHANGED others
  /\ UNCHANGED << n, clock, frames, stick, btn3, work, calib >>

\* The top of the loop: wait until FRAME_MS have passed since lastFrame.
FrameStart ==
  /\ pc = "frame"
  /\ frames < MaxFrames
  /\ now' = Max(clock + work, lastFrame + FRAME_MS)
  /\ clock' = now'
  /\ lastFrame' = now'
  /\ difficulty' = FP + TruncDiv((now' - startTime) * 3 * FP, 100 * 1000)
  /\ frames' = frames + 1
  /\ ops' = << >>
  /\ pc' = "joystick"
  /\ UNCHANGED others
  /\ UNCHANGED << n, stick, btn3, work, calib, playerX, playerVel, lastPlayerFire, lastN,
                  playerBullets, enemyBullets, enemies,
                  prevPlayerX, prevPlayerY, prevEnemyX, prevEnemyY,
                  prevPlayerBulletX, prevPlayerBulletY,
                  prevEnemyBulletX, prevEnemyBulletY,
                  isGameOver, startTime, lastScoreTick, score, gapLane,
                  enemyShown, playerBulletShown, enemyBulletShown >>

\* The normalised axis value of a raw sample, before the deadzone.
Normalize(raw, cal) ==
  LET r1 == IF raw < cal.minVal THEN cal.minVal ELSE raw
      r2 == IF r1 > cal.maxVal THEN cal.maxVal ELSE r1
      q == IF r2 >= cal.center
           THEN FDiv(r2 - cal.center, cal.maxVal - cal.center)
           ELSE FDiv(r2 - cal.center, cal.center - cal.minVal)
  IN Constrain(q, 0 - FP, FP)

Deadzone(v) == IF FLt(FAbs(v), DEADZONE_RATIO) THEN 0 ELSE v

\* lastN*0.6f + n*0.4f
Smooth(last, v) ==
  IF last = NaN \/ v = NaN THEN NaN ELSE TruncDiv(last * 6 + v * 4, 10)

ReadJoystick ==
  /\ pc = "joystick"
  /\ n' = Deadzone(Normalize(stick, calib))
  /\ lastN' = Smooth(lastN, n')
  /\ pc' = "player"
  /\ UNCHANGED others
  /\ UNCHANGED << clock, frames, stick, btn3, work, calib, playerX, playerVel,
                  lastPlayerFire, playerBullets, enemyBullets, enemies,
                  prevPlayerX, prevPlayerY, prevEnemyX, prevEnemyY,
                  prevPlayerBulletX, prevPlayerBulletY,
                  prevEnemyBulletX, prevEnemyBulletY,
                  isGameOver, lastFrame, startTime, lastScoreTick, score,
                  now, difficulty, gapLane, ops,
                  enemyShown, playerBulletShown, enemyBulletShown >>

\* playerVel after one frame's approach to targetVel.
ApproachMutant(vel, target) ==
  IF FLt(vel, target) THEN vel + PLAYER_ACCEL
  ELSE IF FGt(vel, target) THEN vel - PLAYER_ACCEL ELSE vel

Approach(vel, target) ==
  IF FLt(vel, target) THEN (IF vel + PLAYER_ACCEL > target THEN target ELSE vel + PLAYER_ACCEL)
  ELSE IF FGt(vel, target)
       THEN (IF vel - PLAYER_ACCEL < target THEN target ELSE vel - PLAYER_ACCEL)
       ELSE vel

ClampX(x) ==
  IF x < roadX * FP THEN roadX * FP
  ELSE IF x > (roadX + roadW - CAR_W) * FP THEN (roadX + roadW - CAR_W) * FP ELSE x

MovePlayer ==
  /\ pc = "player"
  /\ LET targetVel == IF lastN = NaN THEN NaN ELSE TruncDiv(lastN * PLAYER_MAX_SPEED, FP)
     IN playerVel' = Approach(playerVel, targetVel)
  /\ playerX' = ClampX(playerX + playerVel')
  /\ ops' = IF ToInt(playerX) # ToInt(playerX')
            THEN ops \o EraseRect(<<"player", 0>>, prevPlayerX, prevPlayerY - 6, CAR_W, CAR_H + 6)
            ELSE ops
  /\ pc' = "fire"
  /\ UNCHANGED others
  /\ UNCHANGED << n, clock, frames, stick, btn3, work, calib,
                  lastPlayerFire, lastN, playerBullets, enemyBullets, enemies,
                  prevPlayerX, prevPlayerY, prevEnemyX, prevEnemyY,
                  prevPlayerBulletX, prevPlayerBulletY,
                  prevEnemyBulletX, prevEnemyBulletY,
                  isGameOver, lastFrame, startTime, lastScoreTick, score,
                  now, difficulty, gapLane,
                  enemyShown, playerBulletShown, enemyBulletShown >>

\* The slot a player fire request takes, or -1.
FireSlotMutant(pb) == IF FirstFree(pb, PlayerBulletSlots) < 0 THEN 0 ELSE FirstFree(pb, PlayerBulletSlots)
FireSlot(pb) == FirstFree(pb, PlayerBulletSlots)

FireRequestedMutant == btn3 /\ ~isGameOver

FireRequested ==
  btn3 /\ now - lastPlayerFire >= PLAYER_FIRE_COOLDOWN /\ ~isGameOver

PlayerFire ==
  /\ pc = "fire"
  /\ LET bIdx == FireSlot(playerBullets)
     IN IF FireRequested /\ bIdx >= 0
        THEN /\ playerBullets' =
                  [playerBullets EXCEPT ![bIdx] =
                     [active |-> TRUE,
                      x |-> playerX + (CAR_W \div 2) * FP,
                      y |-> (playerY - 6) * FP,
                      vy |-> PLAYER_BULLET_VY]]
             /\ prevPlayerBulletX' = [prevPlayerBulletX EXCEPT ![bIdx] = SENTINEL]
             /\ prevPlayerBulletY' = [prevPlayerBulletY EXCEPT ![bIdx] = SENTINEL]
             /\ lastPlayerFire' = now
        ELSE UNCHANGED << playerBullets, prevPlayerBulletX, prevPlayerBulletY,
                          lastPlayerFire >>
  /\ pc' = "enemies"
  /\ UNCHANGED others
  /\ UNCHANGED << n, clock, frames, stick, btn3, work, calib, playerX, playerVel, lastN,
                  enemyBullets, enemies,
                  prevPlayerX, prevPlayerY, prevEnemyX, prevEnemyY,
                  prevEnemyBulletX, prevEnemyBulletY,
                  isGameOver, lastFrame, startTime, lastScoreTick, score,
                  now, difficulty, gapLane, ops,
                  enemyShown, playerBulletShown, enemyBulletShown >>

\* The enemy loop, for e = 0 .. MAX_ENEMIES-1: erase, move, draw, then leave
\* the field or fire.  st carries what the loop changes; r is what random()
\* returns for the next fire time.
EnemyBulletVy(diff) == 3 * FP + TruncDiv(diff * 6, 10)

EnemyFireSlot(eb) == FirstFree(eb, EnemyBulletSlots)

EnemyBody(e, st, r) ==
  LET en == st.enemies[e]
      erase1 == IF st.prevEnemyY[e] >= 0 - 1000
                THEN EraseEnemy(e, st.prevEnemyX[e], st.prevEnemyY[e]) ELSE << >>
      y1 == en.y + en.speed
      px == ToInt(en.x)
      py == ToInt(y1)
      left == y1 > scrH * FP
      erase2 == IF left THEN EraseEnemy(e, px, py) ELSE << >>
      fires == ~left /\ now >= en.nextFireAt
      eb == EnemyFireSlot(st.enemyBullets)
      shown1 == ShownAfterDraw(
                  ShownAfterErase(st.enemyShown[e], st.prevEnemyX[e], st.prevEnemyY[e], erase1),
                  px, py, px, py, CAR_W, CAR_H)
  IN [st EXCEPT
        !.enemies[e] = [en EXCEPT !.y = y1,
                                  !.active = ~left,
                                  !.nextFireAt = IF fires THEN now + r ELSE en.nextFireAt],
        !.prevEnemyX[e] = px,
        !.prevEnemyY[e] = py,
        !.ops = st.ops \o erase1 \o DrawEnemyRect(e, px, py) \o erase2,
        !.enemyShown[e] = ShownAfterErase(shown1, px, py, erase2),
        !.enemyBullets = IF fires /\ eb >= 0
                         THEN [st.enemyBullets EXCEPT ![eb] =
                                 [active |-> TRUE,
                                  x |-> en.x + (CAR_W \div 2) * FP,
                                  y |-> y1 + (CAR_H + 4) * FP,
                                  vy |-> EnemyBulletVy(difficulty)]]
                         ELSE st.enemyBullets,
        !.prevEnemyBulletX = IF fires /\ eb >= 0
                             THEN [st.prevEnemyBulletX EXCEPT ![eb] = SENTINEL]
                             ELSE st.prevEnemyBulletX,
        !.prevEnemyBulletY = IF fires /\ eb >= 0
                             THEN [st.prevEnemyBulletY EXCEPT ![eb] = SENTINEL]
                             ELSE st.prevEnemyBulletY]

RECURSIVE EnemyLoop(_, _, _)
EnemyLoop(e, st, r) ==
  IF e >= MAX_ENEMIES THEN st
  ELSE EnemyLoop(e + 1, IF st.enemies[e].active THEN EnemyBody(e, st, r) ELSE st, r)

EnemyStep ==
  /\ pc = "enemies"
  /\ \E r \in FireDelayDraws :
       LET st == EnemyLoop(0, [enemies |-> enemies, enemyBullets |-> enemyBullets,
                               prevEnemyX |-> prevEnemyX, prevEnemyY |-> prevEnemyY,
                               prevEnemyBulletX |-> prevEnemyBulletX,
                               prevEnemyBulletY |-> prevEnemyBulletY,
                               ops |-> ops, enemyShown |-> enemyShown], r)
       IN /\ enemies' = st.enemies
          /\ enemyBullets' = st.enemyBullets
          /\ prevEnemyX' = st.prevEnemyX
          /\ prevEnemyY' = st.prevEnemyY
          /\ prevEnemyBulletX' = st.prevEnemyBulletX
          /\ prevEnemyBulletY' = st.prevEnemyBulletY
          /\ ops' = st.ops
          /\ enemyShown' = st.enemyShown
  /\ pc' = "playerBullets"
  /\ UNCHANGED others
  /\ UNCHANGED << n, clock, frames, stick, btn3, work, calib, playerX, playerVel,
                  lastPlayerFire, lastN, playerBullets,
                  prevPlayerX, prevPlayerY, prevPlayerBulletX, prevPlayerBulletY,
                  isGameOver, lastFrame, startTime, lastScoreTick, score,
                  now, difficulty, gapLane, playerBulletShown, enemyBulletShown >>

\* One pass of a bullet loop over slot b: erase at the cached position when
\* its y is not negative, move, draw, cache, and leave the field.
\* st = [pool, prevX, prevY, ops, shown]; gone(y) is the leaving test.
BulletBody(kind, color, b, st, gone) ==
  LET bu == st.pool[b]
      erase1 == IF st.prevY[b] >= 0
                THEN EraseBullet(<<kind, b>>, st.prevX[b], st.prevY[b]) ELSE << >>
      y1 == bu.y + bu.vy
      px == ToInt(bu.x)
      py == ToInt(y1)
      erase2 == IF gone THEN EraseBullet(<<kind, b>>, px, py) ELSE << >>
      shown1 == ShownAfterDraw(
                  ShownAfterErase(st.shown[b], st.prevX[b], st.prevY[b], erase1),
                  px, py, px - 2, py - 4, 4, 8)
  IN [st EXCEPT
        !.pool[b] = [bu EXCEPT !.y = y1, !.active = ~gone],
        !.prevX[b] = px,
        !.prevY[b] = py,
        !.ops = st.ops \o erase1 \o DrawBullet(<<kind, b>>, px, py, color) \o erase2,
        !.shown[b] = ShownAfterErase(shown1, px, py, erase2)]

PlayerBulletGone(y) == y < (0 - 12) * FP
EnemyBulletGone(y) == y > (scrH + 12) * FP

RECURSIVE PlayerBulletLoop(_, _)
PlayerBulletLoop(b, st) ==
  IF b >= MAX_PLAYER_BULLETS THEN st
  ELSE PlayerBulletLoop(b + 1,
         IF st.pool[b].active
         THEN BulletBody("playerBullet", ST77XX_YELLOW, b, st,
                         PlayerBulletGone(st.pool[b].y + st.pool[b].vy))
         ELSE st)

RECURSIVE EnemyBulletLoop(_, _)
EnemyBulletLoop(b, st) ==
  IF b >= MAX_ENEMY_BULLETS THEN st
  ELSE EnemyBulletLoop(b + 1,
         IF st.pool[b].active
         THEN BulletBody("enemyBullet", ST77XX_CYAN, b, st,
                         EnemyBulletGone(st.pool[b].y + st.pool[b].vy))
         ELSE st)

PlayerBulletsStep ==
  /\ pc = "playerBullets"
  /\ LET st == PlayerBulletLoop(0, [pool |-> playerBullets, prevX |-> prevPlayerBulletX,
                                    prevY |-> prevPlayerBulletY, ops |-> ops,
                                    shown |-> playerBulletShown])
     IN /\ playerBullets' = st.pool
        /\ prevPlayerBulletX' = st.prevX
        /\ prevPlayerBulletY' = st.prevY
        /\ ops' = st.ops
        /\ playerBulletShown' = st.shown
  /\ pc' = "enemyBullets"
  /\ UNCHANGED others
  /\ UNCHANGED << n, clock, frames, stick, btn3, work, calib, playerX, playerVel,
                  lastPlayerFire, lastN, enemyBullets, enemies,
                  prevPlayerX, prevPlayerY, prevEnemyX, prevEnemyY,
                  prevEnemyBulletX, prevEnemyBulletY,
                  isGameOver, lastFrame, startTime, lastScoreTick, score,
                  now, difficulty, gapLane, enemyShown, enemyBulletShown >>

EnemyBulletsStep ==
  /\ pc = "enemyBullets"
  /\ LET st == EnemyBulletLoop(0, [pool |-> enemyBullets, prevX |-> prevEnemyBulletX,
                                   prevY |-> prevEnemyBulletY, ops |-> ops,
                                   shown |-> enemyBulletShown])
     IN /\ enemyBullets' = st.pool
        /\ prevEnemyBulletX' = st.prevX
        /\ prevEnemyBulletY' = st.prevY
        /\ ops' = st.ops
        /\ enemyBulletShown' = st.shown
  /\ pc' = "hitEnemies"
  /\ UNCHANGED others
  /\ UNCHANGED << n, clock, frames, stick, btn3, work, calib, playerX, playerVel,
                  lastPlayerFire, lastN, playerBullets, enemies,
                  prevPlayerX, prevPlayerY, prevEnemyX, prevEnemyY,
                  prevPlayerBulletX, prevPlayerBulletY,
                  isGameOver, lastFrame, startTime, lastScoreTick, score,
                  now, difficulty, gapLane, enemyShown, playerBulletShown >>

\* The player-bullet / enemy collision loops, pair (b, e) numbered
\* k = b * MAX_ENEMIES + e.  The test "bullet b is active" stands at the top
\* of the outer loop only, so it reads the flag the step started with.
\* st = [enemies, pool, score, ops, clock, enemyShown, shown].
BulletAfterHitMutant(bu) == bu
BulletAfterHit(bu) == [bu EXCEPT !.active = FALSE]

HitBody(b, e, st) ==
  LET bx == ToInt(st.pool[b].x)
      by == ToInt(st.pool[b].y)
      ex == ToInt(st.enemies[e].x)
      ey == ToInt(st.enemies[e].y)
      eraseE == EraseEnemy(e, ex, ey)
      eraseB == EraseBullet(<<"playerBullet", b>>, prevPlayerBulletX[b], prevPlayerBulletY[b])
  IN IF Collides(bx, by, ex, ey)
     THEN [st EXCEPT
             !.enemies[e].active = FALSE,
             !.pool[b] = BulletAfterHit(st.pool[b]),
             !.score = st.score + HIT_REWARD,
             !.clock = st.clock + EXPLOSION_MS,
             !.ops = st.ops \o eraseE \o eraseB
                       \o << Fill(<<"hit", b, e>>, "flash", ex + 4, ey + 4,
                                  CAR_W - 8, CAR_H - 8, ST77XX_ORANGE) >>
                       \o EraseRect(<<"hit", b, e>>, ex + 4, ey + 4, CAR_W - 8, CAR_H - 8),
             !.enemyShown[e] = ShownAfterErase(st.enemyShown[e], ex, ey, eraseE),
             !.shown[b] = ShownAfterErase(st.shown[b], prevPlayerBulletX[b], prevPlayerBulletY[b], eraseB)]
     ELSE st

RECURSIVE HitLoop(_, _)
HitLoop(k, st) ==
  IF k >= MAX_PLAYER_BULLETS * MAX_ENEMIES THEN st
  ELSE LET b == k \div MAX_ENEMIES
           e == k % MAX_ENEMIES
       IN HitLoop(k + 1,
            IF playerBullets[b].active /\ st.enemies[e].active THEN HitBody(b, e, st) ELSE st)

HitEnemies ==
  /\ pc = "hitEnemies"
  /\ LET st == HitLoop(0, [enemies |-> enemies, pool |-> playerBullets, score |-> score,
                           ops |-> ops, clock |-> clock, enemyShown |-> enemyShown,
                           shown |-> playerBulletShown])
     IN /\ enemies' = st.enemies
        /\ playerBullets' = st.pool
        /\ score' = st.score
        /\ ops' = st.ops
        /\ clock' = st.clock
        /\ enemyShown' = st.enemyShown
        /\ playerBulletShown' = st.shown
  /\ pc' = "hitPlayer"
  /\ UNCHANGED others
  /\ UNCHANGED << n, frames, stick, btn3, work, calib, playerX, playerVel,
                  lastPlayerFire, lastN, enemyBullets,
                  prevPlayerX, prevPlayerY, prevEnemyX, prevEnemyY,
                  prevPlayerBulletX, prevPlayerBulletY,
                  prevEnemyBulletX, prevEnemyBulletY,
                  isGameOver, lastFrame, startTime, lastScoreTick,
                  now, difficulty, gapLane, enemyBulletShown >>

\* The enemy bullets that overlap the player; the loop stops at the first.
HitsPlayer(b) ==
  /\ enemyBullets[b].active
  /\ Collides(ToInt(enemyBullets[b].x), ToInt(enemyBullets[b].y), ToInt(playerX), playerY)

HitPlayer ==
  /\ pc = "hitPlayer"
  /\ IF \E b \in EnemyBulletSlots : HitsPlayer(b)
     THEN LET b == CHOOSE i \in EnemyBulletSlots :
                     HitsPlayer(i) /\ \A j \in EnemyBulletSlots : j < i => ~HitsPlayer(j)
              erase == EraseBullet(<<"enemyBullet", b>>, prevEnemyBulletX[b], prevEnemyBulletY[b])
          IN /\ enemyBullets' = [enemyBullets EXCEPT ![b].active = FALSE]
             /\ ops' = ops \o erase
             /\ enemyBulletShown' =
                  [enemyBulletShown EXCEPT ![b] =
                     ShownAfterErase(enemyBulletShown[b], prevEnemyBulletX[b],
                                     prevEnemyBulletY[b], erase)]
             /\ isGameOver' = TRUE
     ELSE UNCHANGED << enemyBullets, ops, enemyBulletShown, isGameOver >>
  /\ pc' = "hud"
  /\ UNCHANGED others
  /\ UNCHANGED << n, clock, frames, stick, btn3, work, calib, playerX, playerVel,
                  lastPlayerFire, lastN, playerBullets, enemies,
                  prevPlayerX, prevPlayerY, prevEnemyX, prevEnemyY,
                  prevPlayerBulletX, prevPlayerBulletY,
                  prevEnemyBulletX, prevEnemyBulletY,
                  lastFrame, startTime, lastScoreTick, score,
                  now, difficulty, gapLane, enemyShown, playerBulletShown >>

\* The score tick and the HUD bar (its text is not logged).
Hud ==
  /\ pc = "hud"
  /\ IF now - lastScoreTick >= SCORE_TICK_MS
     THEN score' = score + 1 /\ lastScoreTick' = now
     ELSE UNCHANGED << score, lastScoreTick >>
  /\ ops' = ops \o << Fill(<<"hud", 0>>, "bar", 2, 2, scrW - 4, 14, ST77XX_BLACK) >>
  /\ pc' = "wave"
  /\ UNCHANGED others
  /\ UNCHANGED << n, clock, frames, stick, btn3, work, calib, playerX, playerVel,
                  lastPlayerFire, lastN, playerBullets, enemyBullets, enemies,
                  prevPlayerX, prevPlayerY, prevEnemyX, prevEnemyY,
                  prevPlayerBulletX, prevPlayerBulletY,
                  prevEnemyBulletX, prevEnemyBulletY,
                  isGameOver, lastFrame, startTime,
                  now, difficulty, gapLane,
                  enemyShown, playerBulletShown, enemyBulletShown >>

\* The new-wave trigger of the frame loop.
WaveDue(en) ==
  \/ \A e \in EnemySlots : ~en[e].active
  \/ \E e \in EnemySlots : en[e].active /\ ToInt(en[e].y) > SPAWN_MIN_GAP_PIXELS

NewWave ==
  /\ pc = "wave"
  /\ IF WaveDue(enemies)
     THEN \E draw \in WaveDraws :
            /\ enemies' = SpawnEnemiesWave(enemies, difficulty, clock, draw)
            /\ gapLane' = draw.gap
     ELSE UNCHANGED << enemies, gapLane >>
  /\ pc' = "drawPlayer"
  /\ UNCHANGED others
  /\ UNCHANGED << n, clock, frames, stick, btn3, work, calib, playerX, playerVel,
                  lastPlayerFire, lastN, playerBullets, enemyBullets,
                  prevPlayerX, prevPlayerY, prevEnemyX, prevEnemyY,
                  prevPlayerBulletX, prevPlayerBulletY,
                  prevEnemyBulletX, prevEnemyBulletY,
                  isGameOver, lastFrame, startTime, lastScoreTick, score,
                  now, difficulty, ops,
                  enemyShown, playerBulletShown, enemyBulletShown >>

DrawPlayer ==
  /\ pc = "drawPlayer"
  /\ ops' = ops \o DrawTank(ToInt(playerX), playerY)
  /\ prevPlayerX' = ToInt(playerX)
  /\ prevPlayerY' = playerY
  /\ pc' = "buttons"
  /\ UNCHANGED others
  /\ UNCHANGED << n, clock, frames, stick, btn3, work, calib, playerX, playerVel,
                  lastPlayerFire, lastN, playerBullets, enemyBullets, enemies,
                  prevEnemyX, prevEnemyY,
                  prevPlayerBulletX, prevPlayerBulletY,
                  prevEnemyBulletX, prevEnemyBulletY,
                  isGameOver, lastFrame, startTime, lastScoreTick, score,
                  now, difficulty, gapLane,
                  enemyShown, playerBulletShown, enemyBulletShown >>

\* Where the frame goes after its exit check, back being BTN_BACK read low.
AfterButtonsMutant(back, over) == IF back THEN "exit" ELSE "frame"
AfterButtons(back, over) ==
  IF back THEN "exit" ELSE IF over THEN "gameOver" ELSE "frame"

Buttons ==
  /\ pc = "buttons"
  /\ \E back \in BOOLEAN :
       /\ pc' = AfterButtons(back, isGameOver)
       /\ clock' = IF back THEN clock + 60 ELSE clock
       /\ ops' = IF ~back /\ isGameOver
                 THEN ops \o << Fill(<<"banner", 0>>, "banner", 0, scrH \div 2 - 28,
                                     scrW, 56, ST77XX_BLACK) >>
                 ELSE ops
  /\ UNCHANGED others
  /\ UNCHANGED << n, frames, stick, btn3, work, calib, playerX, playerVel,
                  lastPlayerFire, lastN, playerBullets, enemyBullets, enemies,
                  prevPlayerX, prevPlayerY, prevEnemyX, prevEnemyY,
                  prevPlayerBulletX, prevPlayerBulletY,
                  prevEnemyBulletX, prevEnemyBulletY,
                  isGameOver, lastFrame, startTime, lastScoreTick, score,
                  now, difficulty, gapLane,
                  enemyShown, playerBulletShown, enemyBulletShown >>

\* The game-over window: BTN_3 restarts with a new game2 call, whose locals
\* are fresh; BTN_BACK or the end of the window returns to the caller.
\* How the game-over window ends: choice is what its polling loop meets
\* first, t the time into the window at which it meets it.
AfterWindowMutant(choice) ==
  IF choice = "restart" THEN "calib" ELSE IF choice = "back" THEN "exit" ELSE "gameOver"
AfterWindow(choice) == IF choice = "restart" THEN "calib" ELSE "exit"
WindowTime(choice, t) == IF choice = "timeout" THEN GAMEOVER_MS ELSE t + 100

GameOverWait ==
  /\ pc = "gameOver"
  /\ UNCHANGED others
  /\ \E choice \in {"restart", "back", "timeout"}, t \in PressDraws :
       IF choice = "restart"
       THEN /\ pc' = AfterWindow(choice)
            /\ clock' = clock + WindowTime(choice, t)
            /\ stick' = 2000 /\ btn3' = FALSE /\ work' = 0
            /\ calib' = [minVal |-> 0, maxVal |-> 0, center |-> 0]
            /\ playerX' = 0 /\ playerVel' = 0 /\ lastPlayerFire' = 0 /\ lastN' = 0
            /\ playerBullets' = [b \in PlayerBulletSlots |-> NoBullet]
            /\ enemyBullets' = [b \in EnemyBulletSlots |-> NoBullet]
            /\ enemies' = [e \in EnemySlots |-> NoEnemy]
            /\ prevPlayerX' = 0 /\ prevPlayerY' = 0
            /\ prevEnemyX' = [e \in EnemySlots |-> SENTINEL]
            /\ prevEnemyY' = [e \in EnemySlots |-> SENTINEL]
            /\ prevPlayerBulletX' = [b \in PlayerBulletSlots |-> SENTINEL]
            /\ prevPlayerBulletY' = [b \in PlayerBulletSlots |-> SENTINEL]
            /\ prevEnemyBulletX' = [b \in EnemyBulletSlots |-> SENTINEL]
            /\ prevEnemyBulletY' = [b \in EnemyBulletSlots |-> SENTINEL]
            /\ isGameOver' = FALSE
            /\ lastFrame' = 0 /\ startTime' = 0 /\ lastScoreTick' = 0 /\ score' = 0
            /\ now' = 0 /\ difficulty' = FP /\ n' = 0 /\ gapLane' = 0
            /\ ops' = << >>
            /\ enemyShown' = [e \in EnemySlots |-> NoPos]
            /\ playerBulletShown' = [b \in PlayerBulletSlots |-> NoPos]
            /\ enemyBulletShown' = [b \in EnemyBulletSlots |-> NoPos]
            /\ UNCHANGED frames
       ELSE /\ pc' = AfterWindow(choice)
            /\ clock' = clock + WindowTime(choice, t)
            /\ UNCHANGED << n, frames, stick, btn3, work, calib, playerX, playerVel,
                            lastPlayerFire, lastN, playerBullets, enemyBullets, enemies,
                            prevPlayerX, prevPlayerY, prevEnemyX, prevEnemyY,
                            prevPlayerBulletX, prevPlayerBulletY,
                            prevEnemyBulletX, prevEnemyBulletY,
                            isGameOver, lastFrame, startTime, lastScoreTick, score,
                            now, difficulty, gapLane, ops,
                            enemyShown, playerBulletShown, enemyBulletShown >>

Next ==
  \/ Calibrate
  \/ SessionInit
  \/ FrameStart
  \/ ReadJoystick
  \/ MovePlayer
  \/ PlayerFire
  \/ EnemyStep
  \/ PlayerBulletsStep
  \/ EnemyBulletsStep
  \/ HitEnemies
  \/ HitPlayer
  \/ Hud
  \/ NewWave
  \/ DrawPlayer
  \/ Buttons
  \/ GameOverWait

Spec == Init /\ [][Next]_vars

\* ------------------------------------------------------------------ game1
\* What game1 reads in one pass: analogRead(JOY_X), analogRead(JOY_Y).
JoyDraws == { <<2000, 2000>>, <<2000, 200>>, <<2000, 3800>>, <<200, 2000>>, <<3800, 2000>> }
\* The time one pass of the game1 loop takes, in ms.
LoopDraws == {30, 60}

\* t - last > d on unsigned long: a last that lies after t wraps the
\* difference round to just under 2^32, which is above every delay.
ElapsedOver(t, last, d) == t < last \/ t - last > d

\* The cell one step from (x, y) in direction dir.
StepX(x, dir) == IF dir = 1 THEN x + 1 ELSE IF dir = 3 THEN x - 1 ELSE x
StepY(y, dir) == IF dir = 0 THEN y - 1 ELSE IF dir = 2 THEN y + 1 ELSE y

\* The test of line 457: the cell is off the map or a wall.
BulletStopsMutant(x, y) ==
  x < 0 \/ x >= MAP_SIZE \/ y < 0 \/ y >= MAP_SIZE
BulletStops(x, y) ==
  x < 0 \/ x >= MAP_SIZE \/ y < 0 \/ y >= MAP_SIZE \/ gameMap[y][x] = 1

\* The cell of the bullet on the panel.
BulletRect(by, what, x, y, color) ==
  Fill(by, what, x * CELL_SIZE + CELL_SIZE \div 4, y * CELL_SIZE + CELL_SIZE \div 4,
       CELL_SIZE \div 2, CELL_SIZE \div 2, color)

\* game1 up to its loop: the globals reset, the maze drawn, the timers set.
Game1Start ==
  /\ pc = "game1"
  /\ tankX' = 1
  /\ tankY' = 1
  /\ tankDir' = 0
  /\ prevTankX' = 1
  /\ prevTankY' = 1
  /\ bulletActive' = FALSE
  /\ prevBulletActive' = FALSE
  /\ ops' = << Fill(<<"screen", 0>>, "fillScreen", 0, 0, scrW, scrH, ST77XX_BLACK) >>
  /\ now' = clock
  /\ lastTankMove' = clock
  /\ lastBulletMove' = clock
  /\ lastFireTime' = clock
  /\ pc' = "g1loop"
  /\ UNCHANGED << clock, gameMap, bulletX, bulletY, bulletDir, prevBulletX, prevBulletY,
                  loops, notGame1 >>

\* The top of the loop: now = millis().
Game1Loop ==
  /\ pc = "g1loop"
  /\ loops < MaxLoops
  /\ loops' = loops + 1
  /\ \E d \in LoopDraws : clock' = clock + d
  /\ now' = clock'
  /\ ops' = << >>
  /\ pc' = "g1tank"
  /\ UNCHANGED << gameMap, tankX, tankY, tankDir, prevTankX, prevTankY,
                  bulletActive, bulletX, bulletY, bulletDir,
                  prevBulletActive, prevBulletX, prevBulletY,
                  lastTankMove, lastBulletMove, lastFireTime, notGame1 >>

CellFreeMutant(x, y) ==
  x >= 0 /\ x < MAP_SIZE /\ y >= 0 /\ y < MAP_SIZE

\* The test of line 429 the tank's target cell has to pass.
CellFree(x, y) ==
  /\ x >= 0 /\ x < MAP_SIZE /\ y >= 0 /\ y < MAP_SIZE
  /\ gameMap[y][x] = 0

\* readJoystickAndFire when TANK_MOVE_DELAY has passed.  late is what
\* millis() at line 436 has advanced over the loop's now.
Game1Tank ==
  /\ pc = "g1tank"
  /\ IF ElapsedOver(now, lastTankMove, TANK_MOVE_DELAY)
     THEN \E joy \in JoyDraws, firePressed \in BOOLEAN, late \in {0, 1} :
            LET joyX == joy[1]
                joyY == joy[2]
                dir == IF joyY < JOY_THRESHOLD_LOW THEN 0
                       ELSE IF joyY > JOY_THRESHOLD_HIGH THEN 2
                       ELSE IF joyX < JOY_THRESHOLD_LOW THEN 3
                       ELSE IF joyX > JOY_THRESHOLD_HIGH THEN 1
                       ELSE -1
                wantsToMove == dir >= 0
                newX == IF wantsToMove THEN StepX(tankX, dir) ELSE tankX
                newY == IF wantsToMove THEN StepY(tankY, dir) ELSE tankY
                free == CellFree(newX, newY)
                fire == firePressed /\ ~bulletActive
                          /\ ElapsedOver(now + late, lastFireTime, FIRE_DEBOUNCE)
            IN /\ tankDir' = IF wantsToMove THEN dir ELSE tankDir
               /\ tankX' = IF wantsToMove /\ free THEN newX ELSE tankX
               /\ tankY' = IF wantsToMove /\ free THEN newY ELSE tankY
               /\ IF fire
                  THEN /\ lastFireTime' = now + late
                       /\ bulletActive' = TRUE
                       /\ bulletX' = tankX'
                       /\ bulletY' = tankY'
                       /\ bulletDir' = tankDir'
                       /\ lastBulletMove' = now + late
                  ELSE UNCHANGED << lastFireTime, bulletActive, bulletX, bulletY,
                                    bulletDir, lastBulletMove >>
               /\ lastTankMove' = now
     ELSE UNCHANGED << tankX, tankY, tankDir, lastFireTime, bulletActive, bulletX,
                       bulletY, bulletDir, lastBulletMove, lastTankMove >>
  /\ pc' = "g1bullet"
  /\ UNCHANGED << clock, now, ops, gameMap, prevTankX, prevTankY,
                  prevBulletActive, prevBulletX, prevBulletY, loops, notGame1 >>

\* moveBullet when BULLET_MOVE_DELAY has passed; the difference is unsigned.
Game1Bullet ==
  /\ pc = "g1bullet"
  /\ IF ElapsedOver(now, lastBulletMove, BULLET_MOVE_DELAY)
     THEN /\ IF bulletActive
             THEN /\ bulletX' = StepX(bulletX, bulletDir)
                  /\ bulletY' = StepY(bulletY, bulletDir)
                  /\ bulletActive' = ~BulletStops(bulletX', bulletY')
             ELSE UNCHANGED << bulletX, bulletY, bulletActive >>
          /\ lastBulletMove' = now
     ELSE UNCHANGED << bulletX, bulletY, bulletActive, lastBulletMove >>
  /\ pc' = "g1draw"
  /\ UNCHANGED << clock, now, ops, gameMap, tankX, tankY, tankDir, prevTankX, prevTankY,
                  bulletDir, prevBulletActive, prevBulletX, prevBulletY,
                  lastTankMove, lastFireTime, loops, notGame1 >>

\* drawGame.
Game1Draw ==
  /\ pc = "g1draw"
  /\ ops' = ops
       \o (IF prevTankX # tankX \/ prevTankY # tankY
           THEN << Fill(<<"tank", 0>>, "erase", prevTankX * CELL_SIZE, prevTankY * CELL_SIZE,
                        CELL_SIZE, CELL_SIZE, ST77XX_BLACK) >>
           ELSE << >>)
       \o (IF prevBulletActive
           THEN << BulletRect(<<"bullet", 0>>, "erase", prevBulletX, prevBulletY, ST77XX_BLACK) >>
           ELSE << >>)
       \o << Fill(<<"tank", 0>>, "sprite", tankX * CELL_SIZE, tankY * CELL_SIZE,
                  CELL_SIZE, CELL_SIZE, ST77XX_GREEN) >>
       \o (IF bulletActive
           THEN << BulletRect(<<"bullet", 0>>, "sprite", bulletX, bulletY, ST77XX_RED) >>
           ELSE << >>)
  /\ prevTankX' = tankX
  /\ prevTankY' = tankY
  /\ prevBulletActive' = bulletActive
  /\ prevBulletX' = IF bulletActive THEN bulletX ELSE prevBulletX
  /\ prevBulletY' = IF bulletActive THEN bulletY ELSE prevBulletY
  /\ pc' = "g1back"
  /\ UNCHANGED << clock, now, gameMap, tankX, tankY, tankDir,
                  bulletActive, bulletX, bulletY, bulletDir,
                  lastTankMove, lastBulletMove, lastFireTime, loops, notGame1 >>

\* The exit check that ends the pass.
AfterBackMutant(back) == "g1loop"
AfterBack(back) == IF back THEN "exit" ELSE "g1loop"

Game1Back ==
  /\ pc = "g1back"
  /\ \E back \in BOOLEAN :
       /\ pc' = AfterBack(back)
       /\ clock' = IF back THEN clock + 50 ELSE clock
  /\ UNCHANGED << now, ops, game1Vars, notGame1 >>

\* runGame: the game the menu has selected, or nothing.
RunGame ==
  /\ pc = "runGame"
  /\ \E idx \in 0 .. (NUM_GAMES - 1) :
       pc' = IF idx = 0 THEN "game1" ELSE IF idx = 1 THEN "calib" ELSE "exit"
  /\ UNCHANGED << clock, now, ops, calib, game2Vars, others >>

NextGame1 == Game1Start \/ Game1Loop \/ Game1Tank \/ Game1Bullet \/ Game1Draw \/ Game1Back

InitGames == pc = "runGame" /\ Boot

NextGames == RunGame \/ NextGame1 \/ Next

SpecGames == InitGames /\ [][NextGames]_vars

\* ------------------------------------------------------------------- menu
\* analogRead(JOY_Y) in the menu uses StickDraws.  The time one pass of
\* loop() takes, its delay(10) and its drawing included, in ms; the passes
\* followed are long ones, so that a few of them outlast the debounce times.
MenuLoopDraws == {150}
\* The time a game runs before it returns to handleButtons, in ms.
GameDraws == {7000}

\* drawMainIfChanged and drawConfigIfChanged reach the panel or return early.
MainDrawn(idx, last, sub) == ~(idx = last /\ ~sub)
ConfigDrawn(sub, cfg, lastCfg) ==
  sub /\ ~(cfg = CFG_DEVICE_STATUS /\ lastCfg = CFG_DEVICE_STATUS)

\* What the panel shows when runGame(gameId) has returned: the last frame of
\* the game it ran (neither game clears the panel on its way out), or what it
\* showed before.
ScreenAfterGame(gameId, scr) ==
  IF gameId = 0 THEN "game1" ELSE IF gameId = 1 THEN "game2" ELSE scr

\* The top of loop(): the time since the last pass.
MenuLoop ==
  /\ pc = "m_loop"
  /\ menuLoops < MaxMenuLoops
  /\ menuLoops' = menuLoops + 1
  /\ \E d \in MenuLoopDraws : clock' = clock + d
  /\ pc' = "m_inputs"
  /\ UNCHANGED << topMode, inSubMenu, mainIdx, lastMainIdx, cfgState, lastCfgState,
                  selectedGame, lastOkState, lastBackState, lastBtn3State, lastBtn3Time,
                  lastMoveTime, lastJoystickMoveTime, screen, pressEvents, notMenu >>

\* readInputs.  y is analogRead(JOY_Y), b3 is digitalRead(BTN_3).
ReadInputs ==
  /\ pc = "m_inputs"
  /\ \E y \in StickDraws, b3 \in {LOW, HIGH} :
       LET moved == clock - lastMoveTime > DEBOUNCE_DELAY /\ (y < 1000 \/ y > 3000)
           idx == IF moved /\ ~inSubMenu
                  THEN (IF y < 1000
                        THEN (IF mainIdx - 1 < 0 THEN 1 ELSE mainIdx - 1)
                        ELSE (IF mainIdx + 1 > 1 THEN 0 ELSE mainIdx + 1))
                  ELSE mainIdx
           drawMain == moved /\ ~inSubMenu /\ MainDrawn(idx, lastMainIdx, inSubMenu)
           t3 == IF b3 # lastBtn3State THEN clock ELSE lastBtn3Time
           event == clock - t3 > BTN3_DEBOUNCE /\ b3 = LOW /\ lastBtn3State = HIGH
           refresh == event /\ inSubMenu /\ cfgState = CFG_DEVICE_STATUS
                        /\ ConfigDrawn(inSubMenu, cfgState, 0)
       IN /\ mainIdx' = idx
          /\ lastMainIdx' = IF drawMain THEN idx ELSE lastMainIdx
          /\ lastMoveTime' = IF moved THEN clock ELSE lastMoveTime
          /\ lastBtn3Time' = t3
          /\ lastBtn3State' = b3
          /\ lastCfgState' = IF refresh THEN cfgState
                             ELSE IF event /\ inSubMenu /\ cfgState = CFG_DEVICE_STATUS
                                  THEN 0 ELSE lastCfgState
          /\ screen' = IF refresh THEN "status" ELSE IF drawMain THEN "main" ELSE screen
          /\ pressEvents' = IF b3 = HIGH THEN 0
                            ELSE IF event THEN pressEvents + 1 ELSE pressEvents
  /\ pc' = "m_buttons"
  /\ UNCHANGED << clock, topMode, inSubMenu, cfgState, selectedGame, lastOkState,
                  lastBackState, lastJoystickMoveTime, menuLoops, notMenu >>

\* handleButtons, the game that OK starts in the game menu included.
HandleButtons ==
  /\ pc = "m_buttons"
  /\ \E okPressed \in BOOLEAN, backPressed \in BOOLEAN, d \in GameDraws :
       LET okEdge == okPressed /\ lastOkState = HIGH
           enterGames == okEdge /\ ~inSubMenu /\ mainIdx = 0
           enterConfig == okEdge /\ ~inSubMenu /\ mainIdx # 0
           run == okEdge /\ inSubMenu /\ topMode = "MODE_GAME"
           redo == okEdge /\ inSubMenu /\ topMode # "MODE_GAME" /\ cfgState = CFG_DEVICE_STATUS
           top1 == IF enterGames THEN "MODE_GAME" ELSE topMode
           sub1 == IF enterGames \/ enterConfig THEN TRUE ELSE inSubMenu
           sel1 == IF enterGames THEN 0 ELSE selectedGame
           cfg1 == IF enterConfig THEN CFG_DEVICE_STATUS ELSE cfgState
           cfgDraw == (enterConfig \/ redo) /\ ConfigDrawn(sub1, cfg1, 0)
           lcfg1 == IF cfgDraw THEN cfg1
                    ELSE IF enterConfig \/ redo THEN 0 ELSE lastCfgState
           scr1 == IF enterGames THEN "gameMenu"
                   ELSE IF cfgDraw THEN "status"
                   ELSE IF run THEN ScreenAfterGame(selectedGame, screen)
                   ELSE screen
           backEdge == backPressed /\ lastBackState = HIGH
           leaveGames == backEdge /\ sub1 /\ top1 = "MODE_GAME"
           leaveConfig == backEdge /\ sub1 /\ top1 # "MODE_GAME" /\ cfg1 = CFG_DEVICE_STATUS
           sub2 == IF leaveGames \/ leaveConfig THEN FALSE ELSE sub1
           lmi1 == IF leaveConfig THEN -1 ELSE lastMainIdx
           mainDraw == (leaveGames \/ leaveConfig) /\ MainDrawn(mainIdx, lmi1, sub2)
       IN /\ topMode' = top1
          /\ inSubMenu' = sub2
          /\ selectedGame' = sel1
          /\ cfgState' = cfg1
          /\ lastCfgState' = lcfg1
          /\ lastMainIdx' = IF mainDraw THEN mainIdx ELSE lmi1
          /\ screen' = IF mainDraw THEN "main" ELSE scr1
          /\ clock' = IF run /\ selectedGame \in {0, 1} THEN clock + d ELSE clock
          /\ lastOkState' = IF okPressed THEN LOW ELSE HIGH
          /\ lastBackState' = IF backPressed THEN LOW ELSE HIGH
  /\ pc' = "m_joystick"
  /\ UNCHANGED << mainIdx, lastBtn3State, lastBtn3Time, lastMoveTime,
                  lastJoystickMoveTime, pressEvents, menuLoops, notMenu >>

\* readJoystickMenu.
ReadJoystickMenu ==
  /\ pc = "m_joystick"
  /\ \E y \in StickDraws :
       LET due == clock - lastJoystickMoveTime > DEBOUNCE_DELAY_JOY
           inGames == topMode = "MODE_GAME" /\ inSubMenu
           up == due /\ y < 1000 /\ inGames
           down == due /\ ~(y < 1000) /\ y > 3000 /\ inGames
       IN /\ selectedGame' =
               IF up THEN (IF selectedGame + 1 < 0 THEN NUM_GAMES - 1 ELSE selectedGame + 1)
               ELSE IF down
                    THEN (IF selectedGame - 1 >= NUM_GAMES THEN 0 ELSE selectedGame - 1)
                    ELSE selectedGame
          /\ screen' = IF up \/ down THEN "gameMenu" ELSE screen
          /\ lastJoystickMoveTime' = IF due THEN clock ELSE lastJoystickMoveTime
  /\ pc' = "m_loop"
  /\ UNCHANGED << clock, topMode, inSubMenu, mainIdx, lastMainIdx, cfgState, lastCfgState,
                  lastOkState, lastBackState, lastBtn3State, lastBtn3Time,
                  lastMoveTime, pressEvents, menuLoops, notMenu >>

InitMenu == pc = "m_loop" /\ Boot

NextMenu == MenuLoop \/ ReadInputs \/ HandleButtons \/ ReadJoystickMenu

SpecMenu == InitMenu /\ [][NextMenu]_vars

\* ------------------------------------------------- late in a game2 session
\* The state at the top of the 50th frame of a session played with the stick
\* at rest and BTN_3 held (calibration 200..3800 around 2000, no time lost
\* between frames): the first wave is half way down the road, a second wave
\* has entered, two enemy bullets and two player bullets are flying.  The
\* run is followed for LateFrames frames from here.
InitLate ==
  /\ OthersInit
  /\ pc = "joystick"
  /\ frames = MaxFrames - LateFrames
  /\ clock = 7040
  /\ stick = 2000
  /\ btn3 = TRUE
  /\ work = 0
  /\ calib = [minVal |-> 200, maxVal |-> 3800, center |-> 2000]
  /\ playerX = 50000
  /\ playerVel = 0
  /\ lastPlayerFire = 6900
  /\ lastN = 0
  /\ playerBullets = (0 :> [x |-> 64000, y |-> -17000, active |-> FALSE, vy |-> -6500] @@
       1 :> [x |-> 64000, y |-> 9000, active |-> TRUE, vy |-> -6500] @@
       2 :> [x |-> 64000, y |-> 80500, active |-> TRUE, vy |-> -6500] @@
       3 :> [x |-> 0, y |-> 0, active |-> FALSE, vy |-> 0] @@
       4 :> [x |-> 0, y |-> 0, active |-> FALSE, vy |-> 0] @@
       5 :> [x |-> 0, y |-> 0, active |-> FALSE, vy |-> 0])
  /\ enemyBullets = (0 :> [x |-> 47428, y |-> 140212, active |-> TRUE, vy |-> 3616] @@
       1 :> [x |-> 97142, y |-> 56212, active |-> TRUE, vy |-> 3616] @@
       2 :> [x |-> 0, y |-> 0, active |-> FALSE, vy |-> 0] @@
       3 :> [x |-> 0, y |-> 0, active |-> FALSE, vy |-> 0] @@
       4 :> [x |-> 0, y |-> 0, active |-> FALSE, vy |-> 0] @@
       5 :> [x |-> 0, y |-> 0, active |-> FALSE, vy |-> 0] @@
       6 :> [x |-> 0, y |-> 0, active |-> FALSE, vy |-> 0] @@
       7 :> [x |-> 0, y |-> 0, active |-> FALSE, vy |-> 0] @@
       8 :> [x |-> 0, y |-> 0, active |-> FALSE, vy |-> 0] @@
       9 :> [x |-> 0, y |-> 0, active |-> FALSE, vy |-> 0])
  /\ enemies = (0 :> [ x |-> 33428, y |-> 104700, active |-> TRUE, speed |-> 2300, nextFireAt |-> 7800, lane |-> 2 ] @@
       1 :> [ x |-> 285, y |-> 25025, active |-> TRUE, speed |-> 1321, nextFireAt |-> 8699, lane |-> 0 ] @@
       2 :> [ x |-> 285, y |-> 21062, active |-> TRUE, speed |-> 1321, nextFireAt |-> 8799, lane |-> 0 ] @@
       3 :> [ x |-> 83142, y |-> 20700, active |-> TRUE, speed |-> 2300, nextFireAt |-> 7800, lane |-> 5 ])
  /\ prevPlayerX = 50
  /\ prevPlayerY = 132
  /\ prevEnemyX = (0 :> 33 @@ 1 :> 0 @@ 2 :> 0 @@ 3 :> 83)
  /\ prevEnemyY = (0 :> 104 @@ 1 :> 25 @@ 2 :> 21 @@ 3 :> 20)
  /\ prevPlayerBulletX = (0 :> 64 @@ 1 :> 64 @@ 2 :> 64 @@ 3 :> -100 @@ 4 :> -100 @@ 5 :> -100)
  /\ prevPlayerBulletY = (0 :> -17 @@ 1 :> 9 @@ 2 :> 80 @@ 3 :> -100 @@ 4 :> -100 @@ 5 :> -100)
  /\ prevEnemyBulletX = (0 :> 47 @@
       1 :> 97 @@
       2 :> -100 @@
       3 :> -100 @@
       4 :> -100 @@
       5 :> -100 @@
       6 :> -100 @@
       7 :> -100 @@
       8 :> -100 @@
       9 :> -100)
  /\ prevEnemyBulletY = (0 :> 140 @@
       1 :> 56 @@
       2 :> -100 @@
       3 :> -100 @@
       4 :> -100 @@
       5 :> -100 @@
       6 :> -100 @@
       7 :> -100 @@
       8 :> -100 @@
       9 :> -100)
  /\ isGameOver = FALSE
  /\ lastFrame = 7040
  /\ startTime = 6000
  /\ lastScoreTick = 7000
  /\ score = 25
  /\ now = 7040
  /\ difficulty = 1031
  /\ n = 0
  /\ gapLane = 0
  /\ ops = <<>>
  /\ enemyShown = (0 :> <<33, 104>> @@
       1 :> <<0, 25>> @@
       2 :> <<0, 21>> @@
       3 :> <<83, 20>>)
  /\ playerBulletShown = (0 :> <<64, 2, 0>> @@
       1 :> <<64, 9>> @@
       2 :> <<64, 80>> @@
       3 :> <<>> @@
       4 :> <<>> @@
       5 :> <<>>)
  /\ enemyBulletShown = (0 :> <<47, 140>> @@
       1 :> <<97, 56>> @@
       2 :> <<>> @@
       3 :> <<>> @@
       4 :> <<>> @@
       5 :> <<>> @@
       6 :> <<>> @@
       7 :> <<>> @@
       8 :> <<>> @@
       9 :> <<>>)

\* The games from their start, and game2 from late in a session as well.
SpecLate == (InitGames \/ InitLate) /\ [][NextGames]_vars

\* -------------------------------------------- a wave entering under fire
\* The state at the top of frame 47 of a session played with the stick
\* held at 200 and BTN_3 held (calibration 200..3800 around 2000, 100 ms of
\* work in every frame): the player car is at the left edge of the road with
\* six bullets in the air above it, and the leading enemy is about to pass
\* SPAWN_MIN_GAP_PIXELS with two slots free.  The run is followed for
\* PairFrames frames from here.
InitPair ==
  /\ OthersInit
  /\ pc = "joystick"
  /\ frames = MaxFrames - PairFrames
  /\ clock = 10780
  /\ stick = 200
  /\ btn3 = TRUE
  /\ work = 100
  /\ calib = [minVal |-> 200, maxVal |-> 3800, center |-> 2000]
  /\ playerX = 6000
  /\ playerVel = -4990
  /\ lastPlayerFire = 10480
  /\ lastN = -998
  /\ playerBullets = ( 0 :> [x |-> 20000, y |-> 67500, active |-> TRUE, vy |-> -6500] @@
       1 :> [x |-> 20000, y |-> 106500, active |-> TRUE, vy |-> -6500] @@
       2 :> [x |-> 20000, y |-> 9000, active |-> TRUE, vy |-> -6500] @@
       3 :> [x |-> 20000, y |-> 28500, active |-> TRUE, vy |-> -6500] @@
       4 :> [x |-> 20000, y |-> 48000, active |-> TRUE, vy |-> -6500] @@
       5 :> [x |-> 20000, y |-> 87000, active |-> TRUE, vy |-> -6500] )
  /\ enemyBullets = ( 0 :> [x |-> 47428, y |-> 174108, active |-> FALSE, vy |-> 3616] @@
       1 :> [x |-> 64000, y |-> 146108, active |-> TRUE, vy |-> 3616] @@
       2 :> [x |-> 80571, y |-> 118108, active |-> TRUE, vy |-> 3616] @@
       3 :> [x |-> 97142, y |-> 90108, active |-> TRUE, vy |-> 3616] @@
       4 :> [x |-> 80571, y |-> 89812, active |-> TRUE, vy |-> 3657] @@
       5 :> [x |-> 97142, y |-> 61812, active |-> TRUE, vy |-> 3657] @@
       6 :> [x |-> 80571, y |-> 77711, active |-> TRUE, vy |-> 3673] @@
       7 :> [x |-> 97142, y |-> 49711, active |-> TRUE, vy |-> 3673] @@
       8 :> [x |-> 0, y |-> 0, active |-> FALSE, vy |-> 0] @@
       9 :> [x |-> 0, y |-> 0, active |-> FALSE, vy |-> 0] )
  /\ enemies = ( 0 :> [ x |-> 33428, y |-> 21900, active |-> FALSE, speed |-> 2300, nextFireAt |-> 9099, lane |-> 2 ] @@
       1 :> [ x |-> 50000, y |-> 5400, active |-> FALSE, speed |-> 2300, nextFireAt |-> 9099, lane |-> 3 ] @@
       2 :> [ x |-> 66571, y |-> 41800, active |-> TRUE, speed |-> 2300, nextFireAt |-> 10980, lane |-> 4 ] @@
       3 :> [ x |-> 83142, y |-> 13800, active |-> TRUE, speed |-> 2300, nextFireAt |-> 10980, lane |-> 5 ] )
  /\ prevPlayerX = 6
  /\ prevPlayerY = 132
  /\ prevEnemyX = (0 :> 33 @@
       1 :> 50 @@
       2 :> 66 @@
       3 :> 83)
  /\ prevEnemyY = (0 :> 21 @@
       1 :> 5 @@
       2 :> 41 @@
       3 :> 13)
  /\ prevPlayerBulletX = (0 :> 20 @@
       1 :> 20 @@
       2 :> 20 @@
       3 :> 20 @@
       4 :> 20 @@
       5 :> 20)
  /\ prevPlayerBulletY = (0 :> 67 @@
       1 :> 106 @@
       2 :> 9 @@
       3 :> 28 @@
       4 :> 48 @@
       5 :> 87)
  /\ prevEnemyBulletX = ( 0 :> 47 @@
       1 :> 64 @@
       2 :> 80 @@
       3 :> 97 @@
       4 :> 80 @@
       5 :> 97 @@
       6 :> 80 @@
       7 :> 97 @@
       8 :> -100 @@
       9 :> -100 )
  /\ prevEnemyBulletY = ( 0 :> 174 @@
       1 :> 146 @@
       2 :> 118 @@
       3 :> 90 @@
       4 :> 89 @@
       5 :> 61 @@
       6 :> 77 @@
       7 :> 49 @@
       8 :> -100 @@
       9 :> -100 )
  /\ isGameOver = FALSE
  /\ lastFrame = 10780
  /\ startTime = 6000
  /\ lastScoreTick = 10680
  /\ score = 43
  /\ now = 10780
  /\ difficulty = 1143
  /\ n = -1000
  /\ gapLane = 0
  /\ ops = <<>>
  /\ enemyShown = (0 :> <<33, 21, 0>> @@
       1 :> <<50, 5, 0>> @@
       2 :> <<66, 41>> @@
       3 :> <<83, 13>>)
  /\ playerBulletShown = ( 0 :> <<20, 67>> @@
       1 :> <<20, 106>> @@
       2 :> <<20, 9>> @@
       3 :> <<20, 28>> @@
       4 :> <<20, 48>> @@
       5 :> <<20, 87>> )
  /\ enemyBulletShown = ( 0 :> <<47, 163, 0>> @@
       1 :> <<64, 146>> @@
       2 :> <<80, 118>> @@
       3 :> <<97, 90>> @@
       4 :> <<80, 89>> @@
       5 :> <<97, 61>> @@
       6 :> <<80, 77>> @@
       7 :> <<97, 49>> @@
       8 :> <<>> @@
       9 :> <<>> )

\* game2 from its start, and from the state above as well.
SpecPair == (Init \/ InitPair) /\ [][Next]_vars

\* ------------------------------------------- spawnEnemiesWave on its own
\* spawnEnemiesWave applied once to a pool, for every gapLane and every run
\* of the shuffle that random() can produce.
WaveJs == { js \in [1 .. 5 -> 0 .. 5] : \A i \in 1 .. 5 : js[i] <= i }
AllWaveDraws ==
  { [gap |-> g, js |-> j,
     jit |-> [k \in EnemySlots |-> 0], fd |-> [k \in EnemySlots |-> ENEMY_FIRE_INTERVAL_MIN]] :
    g \in Lanes, j \in WaveJs }

\* The pools a call can meet: a wave that has moved down the road, of which
\* the slots outside S have been deactivated since.
WavePools ==
  LET first == SpawnEnemiesWave([e \in EnemySlots |-> NoEnemy], FP, 0,
                                CHOOSE d \in WaveDraws : d.gap = 0)
  IN { [e \in EnemySlots |->
          [first[e] EXCEPT !.y = @ + 60 * FP, !.active = e \in S]] :
       S \in SUBSET EnemySlots }

InitWave ==
  /\ OthersInit
  /\ pc = "waveCall"
  /\ enemies \in WavePools
  /\ clock = 0 /\ frames = 0 /\ stick = 2000 /\ btn3 = FALSE /\ work = 0
  /\ calib = [minVal |-> 200, maxVal |-> 3800, center |-> 2000]
  /\ playerX = 0 /\ playerVel = 0 /\ lastPlayerFire = 0 /\ lastN = 0
  /\ playerBullets = [b \in PlayerBulletSlots |-> NoBullet]
  /\ enemyBullets = [b \in EnemyBulletSlots |-> NoBullet]
  /\ prevPlayerX = 0 /\ prevPlayerY = 0
  /\ prevEnemyX = [e \in EnemySlots |-> SENTINEL]
  /\ prevEnemyY = [e \in EnemySlots |-> SENTINEL]
  /\ prevPlayerBulletX = [b \in PlayerBulletSlots |-> SENTINEL]
  /\ prevPlayerBulletY = [b \in PlayerBulletSlots |-> SENTINEL]
  /\ prevEnemyBulletX = [b \in EnemyBulletSlots |-> SENTINEL]
  /\ prevEnemyBulletY = [b \in EnemyBulletSlots |-> SENTINEL]
  /\ isGameOver = FALSE
  /\ lastFrame = 0 /\ startTime = 0 /\ lastScoreTick = 0 /\ score = 0
  /\ now = 0 /\ difficulty = FP /\ n = 0 /\ gapLane = 0
  /\ ops = << >>
  /\ enemyShown = [e \in EnemySlots |-> NoPos]
  /\ playerBulletShown = [b \in PlayerBulletSlots |-> NoPos]
  /\ enemyBulletShown = [b \in EnemyBulletSlots |-> NoPos]

WaveCall ==
  /\ pc = "waveCall"
  /\ \E draw \in AllWaveDraws :
       /\ enemies' = SpawnEnemiesWave(enemies, difficulty, clock, draw)
       /\ gapLane' = draw.gap
  /\ pc' = "waveDone"
  /\ UNCHANGED others
  /\ UNCHANGED << n, clock, frames, stick, btn3, work, calib, playerX, playerVel,
                  lastPlayerFire, lastN, playerBullets, enemyBullets,
                  prevPlayerX, prevPlayerY, prevEnemyX, prevEnemyY,
                  prevPlayerBulletX, prevPlayerBulletY,
                  prevEnemyBulletX, prevEnemyBulletY,
                  isGameOver, lastFrame, startTime, lastScoreTick, score,
                  now, difficulty, ops,
                  enemyShown, playerBulletShown, enemyBulletShown >>

NextWave == WaveCall

SpecWave == InitWave /\ [][NextWave]_vars

\* ================================================================ claims
\* The display calls a step adds to the frame's log.
NewOps == SubSeq(ops', Len(ops) + 1, Len(ops'))

ActiveCount(pool) == Cardinality({ s \in DOMAIN pool : pool[s].active })

\* C1: at most 6 player bullets, 10 enemy bullets and 4 enemies are active,
\* and the player-fire step, the enemy-fire step and a wave spawn leave every
\* slot that is active as it is; with the whole pool active the request
\* changes no slot.
C1_PoolsBoundedNoOverwrite ==
  [][ /\ DOMAIN playerBullets' = PlayerBulletSlots
      /\ DOMAIN enemyBullets' = EnemyBulletSlots
      /\ DOMAIN enemies' = EnemySlots
      /\ ActiveCount(playerBullets') <= MAX_PLAYER_BULLETS
      /\ ActiveCount(enemyBullets') <= MAX_ENEMY_BULLETS
      /\ ActiveCount(enemies') <= MAX_ENEMIES
      /\ pc = "fire" =>
           \A b \in PlayerBulletSlots :
             playerBullets[b].active => playerBullets'[b] = playerBullets[b]
      /\ pc = "enemies" =>
           \A b \in EnemyBulletSlots :
             enemyBullets[b].active => enemyBullets'[b] = enemyBullets[b]
      /\ (pc = "enemies" /\ \A b \in EnemyBulletSlots : enemyBullets[b].active) =>
           enemyBullets' = enemyBullets
      /\ pc = "wave" =>
           \A e \in EnemySlots : enemies[e].active => enemies'[e] = enemies[e]
    ]_vars

\* C1 witness: a fire request was due with all six player bullets active,
\* and the fire step has run.
C1_Witness ==
  /\ pc = "enemies"
  /\ FireRequested
  /\ \A b \in PlayerBulletSlots : playerBullets[b].active

\* A step erases a sprite again: the sprite the slot drew for (x, y) has been
\* erased, and the step issues the same erase once more before it draws the
\* slot.
ErasedAgain(by, shown, erase) ==
  /\ Len(shown) = 3
  /\ erase # << >>
  /\ \E i \in 1 .. Len(NewOps) :
       /\ NewOps[i] = erase[1]
       /\ \A j \in 1 .. i - 1 : ~(NewOps[j].by = by /\ NewOps[j].what = "sprite")

EnemyErasedAgain(e) ==
  Len(enemyShown[e]) = 3 /\
    ErasedAgain(<<"enemy", e>>, enemyShown[e],
                EraseEnemy(e, enemyShown[e][1], enemyShown[e][2]))

BulletErasedAgain(kind, b, shown) ==
  Len(shown) = 3 /\
    ErasedAgain(<<kind, b>>, shown, EraseBullet(<<kind, b>>, shown[1], shown[2]))

\* C2: after every frame an active entity's cached previous position is the
\* position its sprite on the panel was drawn for, an entity that is
\* inactive has no sprite left on the panel, and no step erases a sprite that
\* has been erased already, slot reuse included.
C2_RenderCacheConsistent ==
  [][ /\ pc' = "buttons" =>
           /\ \A e \in EnemySlots :
                /\ (enemies'[e].active /\ OnPanel(enemyShown'[e])) =>
                      enemyShown'[e] = <<prevEnemyX'[e], prevEnemyY'[e]>>
                /\ ~enemies'[e].active => ~OnPanel(enemyShown'[e])
           /\ \A b \in PlayerBulletSlots :
                /\ (playerBullets'[b].active /\ OnPanel(playerBulletShown'[b])) =>
                      playerBulletShown'[b] = <<prevPlayerBulletX'[b], prevPlayerBulletY'[b]>>
                /\ ~playerBullets'[b].active => ~OnPanel(playerBulletShown'[b])
           /\ \A b \in EnemyBulletSlots :
                /\ (enemyBullets'[b].active /\ OnPanel(enemyBulletShown'[b])) =>
                      enemyBulletShown'[b] = <<prevEnemyBulletX'[b], prevEnemyBulletY'[b]>>
                /\ ~enemyBullets'[b].active => ~OnPanel(enemyBulletShown'[b])
      /\ \A e \in EnemySlots : ~EnemyErasedAgain(e)
      /\ \A b \in PlayerBulletSlots :
           ~BulletErasedAgain("playerBullet", b, playerBulletShown[b])
      /\ \A b \in EnemyBulletSlots :
           ~BulletErasedAgain("enemyBullet", b, enemyBulletShown[b])
    ]_vars

\* C3: every erase of the frame paints each pixel column it covers with the
\* fill drawBackground painted there.
C3_EraseRepaintsBackground ==
  \A i \in 1 .. Len(ops) :
    ops[i].what = "erase" =>
      \A c \in ops[i].x .. ops[i].x + ops[i].w - 1 : ops[i].color = Background(c)

\* C4: with a degenerate calibration (maxVal = center or center = minVal)
\* the joystick read yields the signal 0 in every frame, and never the
\* result of a division by a zero range.
C4_DegenerateCalibrationYieldsZero ==
  (/\ pc \notin {"calib", "init", "waveCall", "waveDone"}
   /\ (calib.maxVal = calib.center \/ calib.center = calib.minVal))
    => (n = 0 /\ lastN = 0)

\* C5: the normalised value n and the smoothed signal lastN lie in [-1, 1]
\* after every frame, for every calibration and raw sample.
C5_SignalInUnitRange ==
  /\ n # NaN /\ 0 - FP <= n /\ n <= FP
  /\ lastN # NaN /\ 0 - FP <= lastN /\ lastN <= FP

\* C6: after the deadzone, n is 0 when the normalised magnitude is below
\* DEADZONE_RATIO and the normalised value itself otherwise; a raw sample
\* equal to the calibrated centre gives 0.
C6_Deadzone ==
  pc = "player" =>
    LET v == Normalize(stick, calib)
    IN /\ (v # NaN /\ FAbs(v) < DEADZONE_RATIO) => n = 0
       /\ (v # NaN /\ FAbs(v) >= DEADZONE_RATIO) => n = v
       /\ stick = calib.center => n = 0

\* The bullet's rectangle, its centre (bx, by) widened by the tolerance of 2
\* across and 4 along, shares a point with the enemy rectangle at (ex, ey).
RectsOverlap(bx, by, ex, ey) ==
  /\ \E x \in bx - 2 .. bx + 2 : ex <= x /\ x <= ex + CAR_W
  /\ \E y \in by - 4 .. by + 4 : ey <= y /\ y <= ey + CAR_H

PairOverlaps(b, e) ==
  /\ playerBullets[b].active
  /\ enemies[e].active
  /\ RectsOverlap(ToInt(playerBullets[b].x), ToInt(playerBullets[b].y),
                  ToInt(enemies[e].x), ToInt(enemies[e].y))

\* C7: the collision step deactivates an enemy or a player bullet, and
\* scores, only when an active bullet and an active enemy overlap in that
\* frame; for the enemy at (40, 50) the bullet at (50, 55) collides and the
\* bullet at (80, 55) does not.
C7_HitOnlyOnOverlap ==
  [][ /\ pc = "hitEnemies" =>
           /\ \A e \in EnemySlots :
                (enemies[e].active /\ ~enemies'[e].active) =>
                  \E b \in PlayerBulletSlots : PairOverlaps(b, e)
           /\ \A b \in PlayerBulletSlots :
                (playerBullets[b].active /\ ~playerBullets'[b].active) =>
                  \E e \in EnemySlots : PairOverlaps(b, e)
           /\ score' # score =>
                \E b \in PlayerBulletSlots, e \in EnemySlots : PairOverlaps(b, e)
      /\ Collides(50, 55, 40, 50)
      /\ ~Collides(80, 55, 40, 50)
    ]_vars

\* C7 witness: the collision step has registered a hit while another active
\* bullet and another active enemy, not overlapping, stay active.
C7_Witness ==
  /\ pc = "hitPlayer"
  /\ \E i \in 1 .. Len(ops) : ops[i].what = "flash"
  /\ \E b \in PlayerBulletSlots, e \in EnemySlots :
       playerBullets[b].active /\ enemies[e].active

\* C8: a call of spawnEnemiesWave writes only slots that were inactive,
\* activates in them enemies in pairwise distinct lanes, none in gapLane,
\* and no more of them than there were free slots.
C8_WaveKeepsGapLane ==
  [][ (pc \in {"waveCall", "wave", "init"}) =>
       (LET written == { e \in EnemySlots : enemies'[e] # enemies[e] }
            free == { e \in EnemySlots : ~enemies[e].active }
        IN /\ written \subseteq free
           /\ Cardinality(written) <= Cardinality(free)
           /\ \A e \in written :
                enemies'[e].active /\ enemies'[e].lane \in Lanes \ {gapLane'}
           /\ \A e1, e2 \in written :
                e1 # e2 => enemies'[e1].lane # enemies'[e2].lane
           /\ \A e \in written : enemies'[e].x = EnemyX(enemies'[e].lane))
    ]_vars

\* C8 witness: a call has filled the free slots of a pool that held an
\* active enemy, which is still there.
C8_Witness ==
  /\ pc = "waveDone"
  /\ \E e1, e2 \in EnemySlots :
       /\ enemies[e1].active /\ enemies[e1].y < 0
       /\ enemies[e2].active /\ enemies[e2].y > 0
  /\ \A e \in EnemySlots : enemies[e].active

\* C9: the frame in which an active enemy bullet overlaps the player sets
\* isGameOver and deactivates the first such bullet; once isGameOver is set
\* the session runs the rest of that frame and then only the game-over
\* window or the exit, never another joystick, physics or collision step.
C9_FirstHitTerminal ==
  [][ /\ pc = "hitPlayer" =>
           /\ isGameOver' = (\E b \in EnemyBulletSlots : HitsPlayer(b))
           /\ \A b \in EnemyBulletSlots :
                (HitsPlayer(b) /\ \A j \in EnemyBulletSlots : j < b => ~HitsPlayer(j))
                  => ~enemyBullets'[b].active
      /\ isGameOver =>
           /\ pc' \in {"hud", "wave", "drawPlayer", "buttons", "gameOver", "exit", "calib"}
           /\ pc' = "calib" => (pc = "gameOver" /\ ~isGameOver')
           /\ pc' # "calib" => isGameOver'
    ]_vars

\* C9 witness: the session is in the game-over window after the hit.
C9_Witness ==
  /\ pc = "gameOver"
  /\ isGameOver
  /\ \E b \in EnemyBulletSlots : Len(enemyBulletShown[b]) = 3

\* The hits a log of display calls records: the <<bullet, enemy>> pairs of
\* its explosion flashes.
FlashAt(log) == { i \in 1 .. Len(log) : log[i].what = "flash" }
FlashPairs(log) == { <<log[i].by[2], log[i].by[3]>> : i \in FlashAt(log) }

\* The collision step scores 10 for each hit, leaves both parties of each hit
\* inactive, and follows each flash that reaches the panel at once by the
\* erase of its rectangle.
HitStepEffect ==
  pc = "hitEnemies" =>
    /\ score' = score + 10 * Cardinality(FlashAt(NewOps))
    /\ \A p \in FlashPairs(NewOps) :
         ~playerBullets'[p[1]].active /\ ~enemies'[p[2]].active
    /\ \A i \in FlashAt(NewOps) :
         Visible(NewOps[i].x, NewOps[i].y, NewOps[i].w, NewOps[i].h) =>
           /\ i < Len(NewOps)
           /\ NewOps[i + 1].by = NewOps[i].by
           /\ NewOps[i + 1].what = "erase"
           /\ NewOps[i + 1].x <= Max(NewOps[i].x, 0)
           /\ NewOps[i + 1].y <= Max(NewOps[i].y, 0)
           /\ NewOps[i + 1].x + NewOps[i + 1].w >= Min(NewOps[i].x + NewOps[i].w, scrW)
           /\ NewOps[i + 1].y + NewOps[i + 1].h >= Min(NewOps[i].y + NewOps[i].h, scrH)

\* From the collision step to the end of the frame the bullet of a hit stays
\* inactive.
HitBulletStaysInactive ==
  (pc \in {"hitPlayer", "hud", "wave", "drawPlayer"}) =>
    \A p \in FlashPairs(ops) : ~playerBullets'[p[1]].active

\* C10 as stated: each hit of the collision step scores 10, its flash is
\* drawn and erased inside the step, and its bullet and its enemy slot are
\* both inactive when the frame ends.
C10_HitPairInactiveAtFrameEnd ==
  [][ /\ HitStepEffect
      /\ HitBulletStaysInactive
      /\ (pc \in {"hitPlayer", "hud", "wave", "drawPlayer"}) =>
           \A p \in FlashPairs(ops) : ~enemies'[p[2]].active
    ]_vars

\* C10 amended: as above, except that the enemy slot of a hit is inactive
\* only up to the new-wave check of the same frame, where spawnEnemiesWave
\* may put a new enemy above the screen into it.
C10_HitPairInactiveUntilWave ==
  [][ /\ HitStepEffect
      /\ HitBulletStaysInactive
      /\ (pc \in {"hitPlayer", "hud"}) =>
           \A p \in FlashPairs(ops) : ~enemies'[p[2]].active
      /\ pc = "drawPlayer" => enemies' = enemies
      /\ pc = "wave" =>
           \A p \in FlashPairs(ops) :
             enemies'[p[2]].active =>
               /\ WaveDue(enemies)
               /\ enemies'[p[2]].y < 0
               /\ enemies'[p[2]].lane # gapLane'
    ]_vars

\* C10 witness: the frame ends with the enemy slot of one of its hits active
\* again, refilled by the wave spawned in that frame.
C10_Witness ==
  /\ pc = "buttons"
  /\ \E p \in FlashPairs(ops) : enemies[p[2]].active /\ ~playerBullets[p[1]].active

\* C11: a frame mutates (player, enemies, bullets), then evaluates the
\* collisions, then renders, then checks for exit: no draw or erase of the
\* frame is issued before its collision evaluation has finished, so the
\* frame's log of display calls is empty up to the end of the collision
\* steps.
C11_RenderAfterCollision ==
  (pc \in {"joystick", "player", "fire", "enemies", "playerBullets", "enemyBullets",
           "hitEnemies", "hitPlayer", "hud"})
    => ops = << >>

C18_PlayerMotionBounded ==
  [][ (pc = "player") =>
        (LET targetVel == IF lastN = NaN THEN NaN
                          ELSE TruncDiv(lastN * PLAYER_MAX_SPEED, FP)
         IN /\ playerVel' <= PLAYER_MAX_SPEED
            /\ playerVel' >= 0 - PLAYER_MAX_SPEED
            /\ playerVel' - playerVel <= PLAYER_ACCEL
            /\ playerVel - playerVel' <= PLAYER_ACCEL
            /\ FLt(playerVel, targetVel) => playerVel' <= targetVel
            /\ FGt(playerVel, targetVel) => playerVel' >= targetVel
            /\ (targetVel # NaN /\ playerVel = targetVel) => playerVel' = targetVel
            /\ playerX' >= roadX * FP
            /\ playerX' <= (roadX + roadW - CAR_W) * FP)
    ]_vars

\* C18 witness: the player has been driven against the left edge of the road
\* while still moving left, and its velocity has reached the target.
C18_Witness ==
  /\ pc = "fire"
  /\ playerX = roadX * FP
  /\ playerVel < 0
  /\ lastN # NaN
  /\ playerVel = TruncDiv(lastN * PLAYER_MAX_SPEED, FP)


\* C19: in game2 a player bullet is activated only when at least
\* PLAYER_FIRE_COOLDOWN ms of the session clock have passed since the previous
\* activation, however long BTN_3 is held; and with BTN_3 held, the first frame
\* in which the cooldown has elapsed and a player-bullet slot is free
\* activates a bullet and restarts the cooldown.
C19_FireRateLimited ==
  [][ (pc = "fire") =>
        /\ ~isGameOver
        /\ (playerBullets' # playerBullets) =>
             /\ now - lastPlayerFire >= PLAYER_FIRE_COOLDOWN
             /\ lastPlayerFire' = now
             /\ ActiveCount(playerBullets') = ActiveCount(playerBullets) + 1
        /\ (/\ btn3
            /\ now - lastPlayerFire >= PLAYER_FIRE_COOLDOWN
            /\ \E b \in PlayerBulletSlots : ~playerBullets[b].active) =>
             /\ ActiveCount(playerBullets') = ActiveCount(playerBullets) + 1
             /\ lastPlayerFire' = now
        /\ (playerBullets' = playerBullets) => lastPlayerFire' = lastPlayerFire
    ]_vars

\* C19 witness: with BTN_3 held since the session began, a bullet has just
\* been activated while an earlier one is still flying.
C19_Witness ==
  /\ pc = "enemies"
  /\ btn3
  /\ lastPlayerFire = now
  /\ ActiveCount(playerBullets) >= 2


\* C17: when the calibration of a game2 session is complete, its fields
\* satisfy minVal <= center <= maxVal, whatever the axis samples were.
C17_CalibrationOrdered ==
  (pc = "init") => (calib.minVal <= calib.center /\ calib.center <= calib.maxVal)


\* C14: at the first frame of every game2 session, first start or restart,
\* every bullet slot is inactive, the active enemies are those the initial
\* wave spawned above the field, score, player velocity and smoothed signal
\* are 0, and every render-cache entry, the player's included, is the
\* off-screen sentinel.
C14_SessionStartsClean ==
  (pc = "frame" /\ clock = startTime) =>
    /\ \A b \in PlayerBulletSlots : ~playerBullets[b].active
    /\ \A b \in EnemyBulletSlots : ~enemyBullets[b].active
    /\ \A e \in EnemySlots : enemies[e].active => enemies[e].y < 0
    /\ score = 0
    /\ playerVel = 0
    /\ lastN = 0
    /\ ~isGameOver
    /\ \A e \in EnemySlots : prevEnemyX[e] = SENTINEL /\ prevEnemyY[e] = SENTINEL
    /\ \A b \in PlayerBulletSlots :
         prevPlayerBulletX[b] = SENTINEL /\ prevPlayerBulletY[b] = SENTINEL
    /\ \A b \in EnemyBulletSlots :
         prevEnemyBulletX[b] = SENTINEL /\ prevEnemyBulletY[b] = SENTINEL
    /\ prevPlayerX = SENTINEL
    /\ prevPlayerY = SENTINEL


\* C12: every pass of the game1 loop and every frame of game2 ends in its
\* one exit check, and the exit check that reads BTN_BACK low (the one that
\* then waits its 50 or 60 ms) returns to the caller in that step whatever the
\* game state is: in game2 also when isGameOver was set in that frame, and
\* then without the banner, the game-over window or a restart.
C12_BackExitsInSameFrame ==
  [][ /\ (pc' = "frame" /\ pc # "init") => pc = "buttons"
      /\ (pc' = "g1loop" /\ pc # "game1") => pc = "g1back"
      /\ (pc = "drawPlayer") => pc' = "buttons"
      /\ (pc = "g1draw") => pc' = "g1back"
      /\ (pc = "buttons") =>
           /\ (clock' # clock) <=> (pc' = "exit")
           /\ (pc' = "exit") => (clock' = clock + 60 /\ ops' = ops /\ isGameOver' = isGameOver)
      /\ (pc = "g1back") =>
           /\ (clock' # clock) <=> (pc' = "exit")
           /\ (pc' = "exit") => clock' = clock + 50
    ]_vars

\* C12 witness: game2 has returned from the exit check of the frame in which
\* the player was hit, with no banner on the panel.
C12_Witness ==
  /\ pc = "exit"
  /\ isGameOver
  /\ \A i \in DOMAIN ops : ops[i].what # "banner"


\* No active entity of game2 stands beyond the field: no enemy below scrH, no
\* player bullet above -12, and, once the frame's enemy-bullet step has run,
\* no enemy bullet below scrH + 12.
FieldClean ==
  /\ \A e \in EnemySlots : enemies[e].active => enemies[e].y <= scrH * FP
  /\ \A b \in PlayerBulletSlots :
       playerBullets[b].active => playerBullets[b].y >= (0 - 12) * FP
  /\ (pc \notin {"playerBullets", "enemyBullets"}) =>
       \A b \in EnemyBulletSlots :
         enemyBullets[b].active => enemyBullets[b].y <= (scrH + 12) * FP

\* The cell (x, y) is off the 8x8 map or a wall of the maze.
OffMapOrWall(x, y) ==
  x \notin Cells \/ y \notin Cells \/ MazeRows[y + 1][x + 1] = 1

\* C20: entities that leave the field are deactivated in the step in which
\* they leave, never wrapped or clamped: every step of game2 ends with no
\* active enemy or bullet beyond the field, and a game1 bullet that moveBullet
\* has stepped off the map or onto a wall cell is inactive, at the cell one
\* step on, when moveBullet returns.
C20_LeaversDeactivated ==
  [][ /\ FieldClean'
      /\ (pc \in {"enemies", "playerBullets", "enemyBullets"}) =>
           /\ \A e \in EnemySlots :
                enemies'[e].y \in {enemies[e].y, enemies[e].y + enemies[e].speed}
           /\ \A b \in PlayerBulletSlots :
                playerBullets'[b].y \in {playerBullets[b].y,
                                         playerBullets[b].y + playerBullets[b].vy}
      /\ (pc = "g1bullet" /\ bulletActive) =>
           \/ UNCHANGED << bulletX, bulletY, bulletActive >>
           \/ /\ bulletX' = StepX(bulletX, bulletDir)
              /\ bulletY' = StepY(bulletY, bulletDir)
              /\ bulletActive' = ~OffMapOrWall(bulletX', bulletY')
      /\ bulletActive' => ~OffMapOrWall(bulletX', bulletY')
    ]_vars

\* C20 witness: the game1 bullet has just stepped onto a wall cell and been
\* deactivated there, its sprite still on the panel one cell back.
C20_Witness ==
  /\ pc = "g1draw"
  /\ ~bulletActive
  /\ prevBulletActive
  /\ OffMapOrWall(bulletX, bulletY)
  /\ lastBulletMove = now


\* C15: when a game has returned to the menu, the panel has been cleared or
\* the menu redrawn in full before the menu reads its next input: at the top
\* of readInputs the panel never shows the last frame of a game.
C15_PanelHandedBack ==
  (pc = "m_inputs") => screen \notin {"game1", "game2"}

\* C16: a BTN_3 that readInputs has read LOW, after HIGH, for more than
\* BTN3_DEBOUNCE ms has been accepted as exactly one press event.
C16_StablePressIsOneEvent ==
  (pc = "m_buttons" /\ lastBtn3State = LOW /\ clock - lastBtn3Time > BTN3_DEBOUNCE)
    => pressEvents = 1


\* The enemy sprites (CAR_W x CAR_H at the (int) positions) of two enemy
\* records share a pixel.
EnemyRectsOverlap(a, b) ==
  /\ ToInt(a.x) < ToInt(b.x) + CAR_W
  /\ ToInt(b.x) < ToInt(a.x) + CAR_W
  /\ ToInt(a.y) < ToInt(b.y) + CAR_H
  /\ ToInt(b.y) < ToInt(a.y) + CAR_H

\* C21: the k-th enemy one spawnEnemiesWave call activates (k = 0, 1, ...,
\* in the order of the slots it takes) gets y = -(k*(CAR_H+8)+8), so any two
\* enemies of the same call are at least CAR_H+8 apart vertically and their
\* rectangles do not overlap when they are created.
C21_WaveStaggered ==
  [][ (pc = "waveCall") =>
       (LET written == { e \in EnemySlots : enemies'[e] # enemies[e] }
            rank(e) == Cardinality({ f \in written : f < e })
        IN /\ \A e \in written :
                enemies'[e].y = (0 - (rank(e) * (CAR_H + 8) + 8)) * FP
           /\ \A e1, e2 \in written :
                e1 < e2 =>
                  /\ enemies'[e1].y - enemies'[e2].y >= (CAR_H + 8) * FP
                  /\ ~EnemyRectsOverlap(enemies'[e1], enemies'[e2]))
    ]_vars

\* C21 witness: one call has activated four enemies, the last of them three
\* steps above the first.
C21_Witness ==
  /\ pc = "waveDone"
  /\ \A e \in EnemySlots : enemies[e].active /\ enemies[e].y < 0
  /\ \E e1, e2 \in EnemySlots :
       enemies[e1].y - enemies[e2].y = 3 * (CAR_H + 8) * FP


\* The cells of the maze a filled rectangle covers at least one pixel of.
CellsUnder(o) ==
  { c \in Cells \X Cells :
      /\ o.x < (c[1] + 1) * CELL_SIZE /\ c[1] * CELL_SIZE < o.x + o.w
      /\ o.y < (c[2] + 1) * CELL_SIZE /\ c[2] * CELL_SIZE < o.y + o.h }

\* C22: in game1 the tank is always on an in-bounds cell of the maze that is
\* open; readJoystickAndFire run while the one bullet is active leaves the
\* bullet as it is; an active bullet is on an in-bounds open cell whenever
\* moveBullet has run; and every rectangle drawGame fills lies on the map
\* and covers no pixel of a wall cell, with at most one bullet sprite drawn.
C22_Game1OnOpenCells ==
  [][ /\ ~OffMapOrWall(tankX', tankY')
      /\ (pc = "g1tank" /\ bulletActive) =>
           UNCHANGED << bulletActive, bulletX, bulletY, bulletDir,
                        lastBulletMove, lastFireTime >>
      /\ (pc = "g1bullet" /\ bulletActive') => ~OffMapOrWall(bulletX', bulletY')
      /\ (pc = "g1draw") =>
           /\ \A k \in 1 .. Len(NewOps) :
                /\ CellsUnder(NewOps[k]) # {}
                /\ \A c \in CellsUnder(NewOps[k]) : ~OffMapOrWall(c[1], c[2])
                /\ NewOps[k].x >= 0 /\ NewOps[k].y >= 0
                /\ NewOps[k].x + NewOps[k].w <= MAP_SIZE * CELL_SIZE
                /\ NewOps[k].y + NewOps[k].h <= MAP_SIZE * CELL_SIZE
           /\ Cardinality({ k \in 1 .. Len(NewOps) :
                              NewOps[k].by[1] = "bullet" /\ NewOps[k].what = "sprite" }) <= 1
    ]_vars

\* C22 witness: drawGame has just drawn the tank one cell below its start,
\* walls on both sides of it, with the bullet in flight over the open cell
\* below the tank.
C22_Witness ==
  /\ pc = "g1back"
  /\ tankX = 1 /\ tankY = 2
  /\ bulletActive
  /\ << bulletX, bulletY >> # << tankX, tankY >>
  /\ \E k \in 1 .. Len(ops) : ops[k].by[1] = "bullet" /\ ops[k].what = "sprite"


\* C23: in the game-selection menu selectedGame is an index of gameNames,
\* 0 <= selectedGame < NUM_GAMES, after any joystick moves, so that
\* showGameMenu highlights exactly one entry and OK hands runGame a valid id.
C23_SelectionInRange ==
  /\ 0 <= selectedGame /\ selectedGame < NUM_GAMES
  /\ Cardinality({ i \in 0 .. NUM_GAMES - 1 : i = selectedGame }) = 1

\* C24: a game runs (game1 or game2 takes the panel and the clock moves on in
\* handleButtons) only in the submenu that was entered from the GAME entry of
\* the main menu (mainIdx = 0, which no step changes inside a submenu); an OK
\* press while the Device Status screen is shown starts none.
C24_GamesStartFromGameMenu ==
  [][ (pc = "m_buttons" /\ clock' # clock) =>
        (inSubMenu /\ mainIdx = 0 /\ screen # "status")
    ]_vars


\* C25: in one collision step of game2 a player bullet deactivates at most
\* one enemy: no bullet has two hits in the step, the enemies lost in the
\* step are no more than the bullets lost, and the score rises by at most 10
\* for each bullet lost.
C25_OneEnemyPerBullet ==
  [][ (pc = "hitEnemies") =>
        (LET spent == { b \in PlayerBulletSlots :
                          playerBullets[b].active /\ ~playerBullets'[b].active }
             lost == { e \in EnemySlots : enemies[e].active /\ ~enemies'[e].active }
         IN /\ \A b \in PlayerBulletSlots :
                 Cardinality({ p \in FlashPairs(NewOps) : p[1] = b }) <= 1
            /\ Cardinality(lost) <= Cardinality(spent)
            /\ score' - score <= HIT_REWARD * Cardinality(spent))
    ]_vars


\* C26: whenever the new-wave check of a frame spawns, no enemy the call
\* activates has its CAR_W x CAR_H rectangle over the rectangle of an enemy
\* that was active before the call and is still there.
C26_NewWaveClearOfOldEnemies ==
  [][ (pc = "wave") =>
        (LET written == { e \in EnemySlots : enemies'[e] # enemies[e] }
         IN \A e \in written : \A f \in EnemySlots \ written :
              enemies[f].active => ~EnemyRectsOverlap(enemies'[e], enemies'[f]))
    ]_vars

====
